---- MODULE Spec2Model ----
(***************************************************************************)
(* The workflow engine of AgentBridge (src/agentbridge/workflow.py):       *)
(* WorkflowEngine with its registry of definitions, its registry of active *)
(* executions, the control loop of execute_workflow, the per-task          *)
(* coroutine _execute_task and the client operations.                      *)
(*                                                                         *)
(* The engine runs on one asyncio event loop.  A step of the model is what *)
(* one coroutine does between two suspension points:                       *)
(*   - execute_workflow runs from its call to its first suspension         *)
(*     (asyncio.gather or asyncio.sleep) or to its end;                    *)
(*   - the tasks handed to asyncio.gather are started one after the other, *)
(*     in the order of the ready list, with no other coroutine in between; *)
(*     each runs until bridge.send_message suspends, returns or raises;    *)
(*   - a suspended dispatch returns or raises later;                       *)
(*   - when every task of the gather is done the control loop resumes.     *)
(* cancel_workflow, get_workflow_status, get_workflow_result and           *)
(* register_workflow have no suspension point: each is one step.           *)
(*                                                                         *)
(* Specifications:                                                         *)
(*   Spec          the engine under every client operation;                *)
(*   RunSpec       the engine under callers that register and execute;     *)
(*   LiveSpec      RunSpec under the scheduling of the event loop;         *)
(*   ResolveSpec   the engine running a definition that takes every branch *)
(*                 of _resolve_inputs;                                     *)
(*   RegisterSpec  register_workflow on every small definition;            *)
(*   DuplicateSpec the engine running a definition with two tasks of the   *)
(*                 same id;                                                *)
(*   JoinedSpec    the engine running a definition whose inputs join       *)
(*                 reference expressions with other text;                  *)
(*   StartSpec     the engine running a definition with a dependency that  *)
(*                 names no task;                                          *)
(*   CycleSpec     the engine running definitions with a dependency cycle, *)
(*                 under the scheduling of the event loop;                 *)
(*   BuilderSpec   WorkflowBuilder.                                        *)
(***************************************************************************)
EXTENDS Integers, Sequences, FiniteSets, TLC

\* Number of executions the callers start (execution ids 1..MaxExecutions).
MaxExecutions == 1

ExecutionIds == 1 .. MaxExecutions

\* Number of tasks of a generated definition, and of tasks added to a
\* builder between two builds.
MaxTasks == 2

\* Number of definitions built with one builder.
MaxBuilt == 2

(***************************************************************************)
(* Python values.  Every value is a tagged record, so that None, strings,  *)
(* scalars and dicts can be compared with one another.                     *)
(***************************************************************************)
None == [kind |-> "none"]
Str(s) == [kind |-> "str", s |-> s]
Scalar(n) == [kind |-> "scalar", n |-> n]
Dict(m) == [kind |-> "dict", m |-> m]

\* A string that inputs may hold, as the sequence of its tokens: the
\* delimiters "${" and "}", the separator "." and the names between them.
Text(tokens) == [kind |-> "str", tokens |-> tokens]

\* The reference expression "${" + path + "}".
Reference(path) == Text(<<"${">> \o path \o <<"}">>)

\* The empty dict.
EmptyMap == [k \in {} |-> None]

\* d[k] = v on a dict d.
Put(d, k, v) == [x \in (DOMAIN d) \cup {k} |-> IF x = k THEN v ELSE d[x]]

\* f"{task_id}.{output_name}": a name is a sequence of tokens.
OutputKey(task_id, output_name) == <<task_id, ".", output_name>>

(***************************************************************************)
(* The definitions the callers register, and what the dispatch channel     *)
(* answers.                                                                *)
(***************************************************************************)
TaskDefinition(id, framework, inputs, outputs, dependencies) ==
    [id |-> id, framework |-> framework, inputs |-> inputs, outputs |-> outputs,
     dependencies |-> dependencies]

WorkflowDefinition(id, tasks) ==
    [id |-> id, tasks |-> tasks, start_tasks |-> <<>>, end_tasks |-> <<>>]

\* The dict {key: value}.
Single(key, value) == [k \in {key} |-> value]

\* A (no dependency), B and C each depending on A; B takes A's output.
FanOut ==
    WorkflowDefinition("wf1",
        << TaskDefinition("A", "crewai", EmptyMap, {"o"}, {}),
           TaskDefinition("B", "langgraph",
                          Single("b", Reference(<<"A", ".", "o">>)), {}, {"A"}),
           TaskDefinition("C", "autogen", EmptyMap, {}, {"A"}) >>)

\* Independent tasks.
Independent ==
    WorkflowDefinition("wf2",
        << TaskDefinition("A", "crewai", EmptyMap, {"o"}, {}),
           TaskDefinition("B", "langgraph", EmptyMap, {}, {}) >>)

\* A second definition for the id wf2: B and C wait for each other.
Cyclic ==
    WorkflowDefinition("wf2",
        << TaskDefinition("B", "langgraph", EmptyMap, {}, {"C"}),
           TaskDefinition("C", "autogen", EmptyMap, {}, {"B"}) >>)

\* Two tasks with the same id A, sent to different frameworks: nothing in
\* WorkflowDefinition or register_workflow asks for the ids to be unique.
Twins ==
    WorkflowDefinition("wf4",
        << TaskDefinition("A", "crewai", EmptyMap, {"o"}, {}),
           TaskDefinition("A", "langgraph", EmptyMap, {}, {}) >>)

\* A (no dependency) beside a cycle: B waits for A and C, C waits for B.
Knot ==
    WorkflowDefinition("wf5",
        << TaskDefinition("A", "crewai", EmptyMap, {"o"}, {}),
           TaskDefinition("B", "langgraph", EmptyMap, {}, {"A", "C"}),
           TaskDefinition("C", "autogen", EmptyMap, {}, {"B"}) >>)

\* A definition whose task R, dispatched after P, takes strings that hold a
\* reference expression beside other text: two references joined (j to an
\* output of P, v to variables, z to an output of a task that does not
\* exist), a reference after a prefix (p) and before a suffix (s); with them
\* one whole reference (r) and a number (n).  U, dispatched in the round of
\* P and after it, takes two references joined (k) and a reference to a
\* variable that has the name of the output of P (w).
Joined ==
    WorkflowDefinition("wf6",
        << TaskDefinition("P", "langchain", EmptyMap, {"o"}, {}),
           TaskDefinition("U", "autogen",
                          [k \in {"k", "w"} |->
                              IF k = "k"
                              THEN Text(<<"${", "P", ".", "o", "}", "${", "x", "}">>)
                              ELSE Reference(<<"o">>)],
                          {}, {}),
           TaskDefinition("R", "langgraph",
                          [k \in {"j", "v", "z", "p", "s", "r", "n"} |->
                              CASE k = "j" -> Text(<<"${", "P", ".", "o", "}", "-",
                                                     "${", "P", ".", "o", "}">>)
                                [] k = "v" -> Text(<<"${", "x", "}", " ",
                                                     "${", "x", "}">>)
                                [] k = "z" -> Text(<<"${", "Z", ".", "o", "}",
                                                     "${", "x", "}">>)
                                [] k = "p" -> Text(<<"pre ", "${", "x", "}">>)
                                [] k = "s" -> Text(<<"${", "x", "}", " post">>)
                                [] k = "r" -> Reference(<<"x">>)
                                [] k = "n" -> Scalar(3)],
                          {}, {"P"}) >>)

\* A (no dependency) and B, whose one dependency Z is the id of no task of
\* the definition: nothing in register_workflow asks the dependencies to
\* name tasks of the workflow.
Dangling ==
    WorkflowDefinition("wf7",
        << TaskDefinition("A", "crewai", EmptyMap, {"o"}, {}),
           TaskDefinition("B", "langgraph", EmptyMap, {}, {"Z"}) >>)

Catalog == {FanOut, Independent, Cyclic}

\* A definition whose inputs hold every kind of value _resolve_inputs tells
\* apart.  T, P and S are independent and dispatched in this order in round
\* 1: T refers to P before P is attempted, S after; Q depends on P.  P
\* declares the outputs o and q, and no reply holds q.
References ==
    WorkflowDefinition("wf3",
        << TaskDefinition("T", "autogen",
                          Single("e", Reference(<<"P", ".", "o">>)), {}, {}),
           TaskDefinition("P", "langchain",
                          [k \in {"a", "y"} |->
                              IF k = "a" THEN Reference(<<"x">>)
                              ELSE Reference(<<"y">>)],
                          {"o", "q"}, {}),
           TaskDefinition("S", "autogen",
                          Single("e", Reference(<<"P", ".", "o">>)), {}, {}),
           TaskDefinition("Q", "langgraph",
                          [k \in {"b", "c", "d", "l", "t"} |->
                              CASE k = "b" -> Reference(<<"P", ".", "o">>)
                                [] k = "c" -> Reference(<<"P", ".", "z">>)
                                [] k = "d" -> Reference(<<"Z", ".", "o">>)
                                [] k = "l" -> Scalar(3)
                                [] k = "t" -> Text(<<"${", "x">>)],
                          {}, {"P"}) >>)

\* Every definition of at most MaxTasks tasks with unique ids, whose
\* dependencies are ids of the definition's name space or the id Z that no
\* task has.
TaskNames == <<"A", "B", "C", "D", "E">>

GeneratedIds == {TaskNames[i] : i \in 1 .. MaxTasks}

GeneratedTasks ==
    {TaskDefinition(id, "crewai", EmptyMap, {}, dependencies) :
        id \in GeneratedIds, dependencies \in SUBSET (GeneratedIds \cup {"Z"})}

GeneratedLists ==
    {tasks \in UNION {[1 .. n -> GeneratedTasks] : n \in 0 .. MaxTasks} :
        \A i, j \in 1 .. Len(tasks) : tasks[i].id = tasks[j].id => i = j}

Definitions == {WorkflowDefinition("wf1", tasks) : tasks \in GeneratedLists}

\* The workflow ids a caller passes to execute_workflow.
WorkflowIds == {"wf1", "wf2", "unknown"}

\* What bridge.send_message returns from each target framework: a dict
\* that holds the output "o" (and, from langchain, a key "u" that no task
\* declares), or a scalar.
Replies(framework) ==
    IF framework = "crewai"
    THEN { Dict([k \in {"o"} |-> Scalar(1)]), Scalar(7) }
    ELSE IF framework = "langchain"
    THEN { Dict([k \in {"o", "u"} |-> IF k = "o" THEN Scalar(1) ELSE Scalar(2)]),
           Scalar(7), Scalar(0) }
    ELSE { Scalar(7) }

\* str(e) of what bridge.send_message raises for each target framework;
\* the empty string is the str() of an exception raised without a message,
\* such as asyncio.TimeoutError().
Errors(framework) ==
    IF framework = "crewai" THEN { "", "not connected" }
    ELSE IF framework \in {"langgraph", "langchain"} THEN { "not connected" }
    ELSE { "" }

Frameworks == {"crewai", "langgraph", "autogen", "langchain"}

\* The dict the callers pass as input_variables.
CallerVariables == [k \in {<<"x">>} |-> Scalar(5)]

\* input_variables of execute_workflow: None, or the callers' dict.
InputVariables == {"None"}

VARIABLES
    workflow_definitions,   \* WorkflowEngine.workflow_definitions: id -> definition
    active_executions,      \* keys of WorkflowEngine.active_executions
    executions,             \* the WorkflowExecution objects, by execution id
    dicts,                  \* the dict objects that serve as variable spaces
    pc,                     \* where each execute_workflow call is
    pending,                \* tasks of the current gather not yet started
    gathered,               \* tasks_to_run of the current gather, in order
    results,                \* what each task of the current gather has
                            \* produced so far, in the same order
    history,                \* per execution: rounds so far, task map at round
                            \* start, round and resolved inputs of each dispatch
    lastCall,               \* the last client call and what it returned
    builder,                \* a WorkflowBuilder: its tasks and its task_count
    built                   \* the definitions its build calls returned

vars == <<workflow_definitions, active_executions, executions, dicts, pc,
          pending, gathered, results, history, lastCall, builder, built>>

\* References to dict objects: 0 is the callers' dict, e > 0 the dict
\* created by `input_variables or {}` for execution e.
CallerDict == 0

Idle == [op |-> "none", id |-> 0, wf |-> "", result |-> None]

Call(op, id, wf, result) == [op |-> op, id |-> id, wf |-> wf, result |-> result]

Terminal == {"completed", "failed", "cancelled"}

(***************************************************************************)
(* WorkflowEngine.__init__                                                 *)
(***************************************************************************)
Init ==
    /\ workflow_definitions = EmptyMap
    /\ active_executions = {}
    /\ executions = [e \in ExecutionIds |-> None]
    /\ dicts = [r \in {CallerDict} \cup ExecutionIds |->
                  IF r = CallerDict THEN CallerVariables ELSE EmptyMap]
    /\ pc = [e \in ExecutionIds |-> "idle"]
    /\ pending = [e \in ExecutionIds |-> <<>>]
    /\ gathered = [e \in ExecutionIds |-> <<>>]
    /\ results = [e \in ExecutionIds |-> <<>>]
    /\ history = [e \in ExecutionIds |->
                    [rounds |-> 0, at_start |-> EmptyMap, dispatched |-> EmptyMap,
                     inputs |-> EmptyMap]]
    /\ lastCall = Idle
    /\ builder = [tasks |-> <<>>, task_count |-> 0]
    /\ built = <<>>

(***************************************************************************)
(* Pure helpers of the engine                                              *)
(***************************************************************************)
\* [task.id for task in tasks]
TaskIds(tasks) == [i \in 1 .. Len(tasks) |-> tasks[i].id]

\* {task.id for task in tasks}
TaskIdSet(tasks) == {tasks[i].id : i \in 1 .. Len(tasks)}

\* Mutant: only a task with an empty dependency list is a start task.
_calculate_start_end_tasks_empty(workflow_def) ==
    LET IsStart(task) == task.dependencies = {}
        dependent_tasks == UNION {workflow_def.tasks[i].dependencies :
                                     i \in 1 .. Len(workflow_def.tasks)}
        IsEnd(task) == task.id \notin dependent_tasks
    IN  [workflow_def EXCEPT
            !.start_tasks = TaskIds(SelectSeq(workflow_def.tasks, IsStart)),
            !.end_tasks = TaskIds(SelectSeq(workflow_def.tasks, IsEnd))]

\* Mutant: the ids found are appended to the lists the definition holds.
_calculate_start_end_tasks_append(workflow_def) ==
    LET all_task_ids == TaskIdSet(workflow_def.tasks)
        IsStart(task) == \/ task.dependencies = {}
                         \/ task.dependencies \cap all_task_ids = {}
        dependent_tasks == UNION {workflow_def.tasks[i].dependencies :
                                     i \in 1 .. Len(workflow_def.tasks)}
        IsEnd(task) == task.id \notin dependent_tasks
    IN  [workflow_def EXCEPT
            !.start_tasks = @ \o TaskIds(SelectSeq(workflow_def.tasks, IsStart)),
            !.end_tasks = @ \o TaskIds(SelectSeq(workflow_def.tasks, IsEnd))]

\* WorkflowEngine._calculate_start_end_tasks
_calculate_start_end_tasks(workflow_def) ==
    LET all_task_ids == TaskIdSet(workflow_def.tasks)
        IsStart(task) == \/ task.dependencies = {}
                         \/ task.dependencies \cap all_task_ids = {}
        dependent_tasks == UNION {workflow_def.tasks[i].dependencies :
                                     i \in 1 .. Len(workflow_def.tasks)}
        IsEnd(task) == task.id \notin dependent_tasks
    IN  [workflow_def EXCEPT
            !.start_tasks = TaskIds(SelectSeq(workflow_def.tasks, IsStart)),
            !.end_tasks = TaskIds(SelectSeq(workflow_def.tasks, IsEnd))]

\* Mutant: the TaskExecution is stored with the status of its constructor,
\* PENDING.
TaskExecution_pending(task_def) ==
    [task_def |-> task_def, status |-> "pending", result |-> None, error |-> None]

\* TaskExecution(task_def) with started_at set and status RUNNING
TaskExecution(task_def) ==
    [task_def |-> task_def, status |-> "running", result |-> None, error |-> None]

\* WorkflowExecution(workflow_def, id, status=RUNNING, started_at=now, variables=ref)
WorkflowExecution(workflow_def, id, variables) ==
    [kind |-> "execution", workflow_def |-> workflow_def, id |-> id,
     status |-> "running", completed_at |-> FALSE,
     task_executions |-> EmptyMap, variables |-> variables, error |-> None]

\* bool(value): None, 0, the empty string and the empty dict are false.
Truthy(value) ==
    /\ value # None
    /\ value.kind = "scalar" => value.n # 0
    /\ value.kind = "dict" => DOMAIN value.m # {}
    /\ value.kind = "str" => value.tokens # <<>>

\* isinstance(value, str) and value.startswith("${") and value.endswith("}")
IsReference(value) ==
    /\ value.kind = "str"
    /\ Len(value.tokens) >= 2
    /\ Head(value.tokens) = "${"
    /\ value.tokens[Len(value.tokens)] = "}"

\* What is kept of an input: the value stored under its key, or no entry.
Stored(value) == [stored |-> TRUE, value |-> value]

NotStored == [stored |-> FALSE, value |-> None]

\* Mutant: a workflow variable that is not found resolves to None
\* (variables.get(var_path)).
ResolveValue_get(value, workflow_execution) ==
    IF ~IsReference(value)
    THEN Stored(value)
    ELSE LET var_path == SubSeq(value.tokens, 2, Len(value.tokens) - 1)
             dots == {i \in 1 .. Len(var_path) : var_path[i] = "."}
         IN  IF dots # {}
             THEN LET dot == CHOOSE i \in dots : \A j \in dots : i <= j
                      task_id == SubSeq(var_path, 1, dot - 1)
                      output_name == SubSeq(var_path, dot + 1, Len(var_path))
                  IN  IF /\ Len(task_id) = 1
                         /\ task_id[1] \in DOMAIN workflow_execution.task_executions
                      THEN LET task_exec ==
                                   workflow_execution.task_executions[task_id[1]]
                           IN  IF /\ task_exec.status = "completed"
                                  /\ Truthy(task_exec.result)
                               THEN IF /\ task_exec.result.kind = "dict"
                                       /\ Len(output_name) = 1
                                       /\ output_name[1] \in DOMAIN task_exec.result.m
                                    THEN Stored(task_exec.result.m[output_name[1]])
                                    ELSE Stored(task_exec.result)
                               ELSE Stored(value)
                      ELSE NotStored
             ELSE IF var_path \in DOMAIN dicts[workflow_execution.variables]
                  THEN Stored(dicts[workflow_execution.variables][var_path])
                  ELSE Stored(None)

\* The body of the loop of _resolve_inputs (lines 134-159) for one input
\* value.  var_path is value[2:-1]; a path with a "." is split at its first
\* "." into task_id and output_name.  A task id or an output name is one
\* token.  When task_id has no TaskExecution nothing is stored (the `if` of
\* line 142 has no else).
ResolveValue(value, workflow_execution) ==
    IF ~IsReference(value)
    THEN Stored(value)
    ELSE LET var_path == SubSeq(value.tokens, 2, Len(value.tokens) - 1)
             dots == {i \in 1 .. Len(var_path) : var_path[i] = "."}
         IN  IF dots # {}
             THEN LET dot == CHOOSE i \in dots : \A j \in dots : i <= j
                      task_id == SubSeq(var_path, 1, dot - 1)
                      output_name == SubSeq(var_path, dot + 1, Len(var_path))
                  IN  IF /\ Len(task_id) = 1
                         /\ task_id[1] \in DOMAIN workflow_execution.task_executions
                      THEN LET task_exec ==
                                   workflow_execution.task_executions[task_id[1]]
                           IN  IF /\ task_exec.status = "completed"
                                  /\ Truthy(task_exec.result)
                               THEN IF /\ task_exec.result.kind = "dict"
                                       /\ Len(output_name) = 1
                                       /\ output_name[1] \in DOMAIN task_exec.result.m
                                    THEN Stored(task_exec.result.m[output_name[1]])
                                    ELSE Stored(task_exec.result)
                               ELSE Stored(value)
                      ELSE NotStored
             ELSE IF var_path \in DOMAIN dicts[workflow_execution.variables]
                  THEN Stored(dicts[workflow_execution.variables][var_path])
                  ELSE Stored(value)

\* WorkflowEngine._resolve_inputs
_resolve_inputs(task_def, workflow_execution) ==
    LET Resolved(key) == ResolveValue(task_def.inputs[key], workflow_execution)
    IN  [key \in {k \in DOMAIN task_def.inputs : Resolved(k).stored} |->
            Resolved(key).value]

\* Mutant: a dependency that has no TaskExecution yet is skipped instead of
\* making the task wait.
_check_dependencies_met_skip_missing(task_def, workflow_execution) ==
    \A dep_task_id \in task_def.dependencies :
        dep_task_id \in DOMAIN workflow_execution.task_executions
            => workflow_execution.task_executions[dep_task_id].status = "completed"

\* Mutant: one Completed dependency is enough (any instead of all).
_check_dependencies_met_any(task_def, workflow_execution) ==
    \/ task_def.dependencies = {}
    \/ \E dep_task_id \in task_def.dependencies :
          /\ dep_task_id \in DOMAIN workflow_execution.task_executions
          /\ workflow_execution.task_executions[dep_task_id].status = "completed"

\* WorkflowEngine._check_dependencies_met
_check_dependencies_met(task_def, workflow_execution) ==
    \A dep_task_id \in task_def.dependencies :
        /\ dep_task_id \in DOMAIN workflow_execution.task_executions
        /\ workflow_execution.task_executions[dep_task_id].status = "completed"

\* Mutant: only the first ready task is returned, one task per round.
_get_ready_tasks_first(workflow_execution) ==
    LET Ready(task_def) ==
            /\ task_def.id \notin DOMAIN workflow_execution.task_executions
            /\ _check_dependencies_met(task_def, workflow_execution)
        ready_tasks == SelectSeq(workflow_execution.workflow_def.tasks, Ready)
    IN  IF ready_tasks = <<>> THEN <<>> ELSE <<Head(ready_tasks)>>

\* Mutant: a task whose TaskExecution is COMPLETED counts as not started.
_get_ready_tasks_again(workflow_execution) ==
    LET Ready(task_def) ==
            /\ \/ task_def.id \notin DOMAIN workflow_execution.task_executions
               \/ workflow_execution.task_executions[task_def.id].status = "completed"
            /\ _check_dependencies_met(task_def, workflow_execution)
    IN  SelectSeq(workflow_execution.workflow_def.tasks, Ready)

\* Mutant: the dependencies are not looked at.
_get_ready_tasks_no_dependencies(workflow_execution) ==
    LET Ready(task_def) ==
            task_def.id \notin DOMAIN workflow_execution.task_executions
    IN  SelectSeq(workflow_execution.workflow_def.tasks, Ready)

\* Mutant: the tasks are those of the definition now registered under the
\* id of the execution's definition.
_get_ready_tasks_registered(workflow_execution) ==
    LET Ready(task_def) ==
            /\ task_def.id \notin DOMAIN workflow_execution.task_executions
            /\ _check_dependencies_met(task_def, workflow_execution)
    IN  SelectSeq(workflow_definitions[workflow_execution.workflow_def.id].tasks,
                  Ready)

\* Mutant: every task whose dependencies are met is ready, started before
\* or not.
_get_ready_tasks_dependencies_only(workflow_execution) ==
    LET Ready(task_def) == _check_dependencies_met(task_def, workflow_execution)
    IN  SelectSeq(workflow_execution.workflow_def.tasks, Ready)

\* WorkflowEngine._get_ready_tasks
_get_ready_tasks(workflow_execution) ==
    LET Ready(task_def) ==
            /\ task_def.id \notin DOMAIN workflow_execution.task_executions
            /\ _check_dependencies_met(task_def, workflow_execution)
    IN  SelectSeq(workflow_execution.workflow_def.tasks, Ready)

\* Mutant: only SKIPPED tasks count as done.
completed_tasks_skipped(workflow_execution) ==
    {t \in DOMAIN workflow_execution.task_executions :
        workflow_execution.task_executions[t].status \in {"skipped"}}

\* completed_tasks of execute_workflow (lines 267-270)
completed_tasks(workflow_execution) ==
    {t \in DOMAIN workflow_execution.task_executions :
        workflow_execution.task_executions[t].status \in {"completed", "skipped"}}

\* Mutant: the completed tasks are counted against the tasks attempted, not
\* against the tasks of the definition.
LoopStep_attempted(workflow_execution) ==
    IF workflow_execution.status # "running"
    THEN [we |-> workflow_execution, next |-> "exit", ready |-> <<>>]
    ELSE LET ready_tasks == _get_ready_tasks(workflow_execution) IN
         IF ready_tasks = <<>>
         THEN IF Cardinality(completed_tasks(workflow_execution))
                   = Cardinality(DOMAIN workflow_execution.task_executions)
              THEN [we |-> [workflow_execution EXCEPT !.status = "completed",
                                                      !.completed_at = TRUE],
                    next |-> "exit", ready |-> <<>>]
              ELSE [we |-> workflow_execution, next |-> "sleep", ready |-> <<>>]
         ELSE [we |-> workflow_execution, next |-> "gather", ready |-> ready_tasks]

\* One pass of `while workflow_execution.status == RUNNING` up to the point
\* where the control loop suspends or leaves the loop (lines 261-288).
LoopStep(workflow_execution) ==
    IF workflow_execution.status # "running"
    THEN [we |-> workflow_execution, next |-> "exit", ready |-> <<>>]
    ELSE LET ready_tasks == _get_ready_tasks(workflow_execution) IN
         IF ready_tasks = <<>>
         THEN IF Cardinality(completed_tasks(workflow_execution))
                   = Len(workflow_execution.workflow_def.tasks)
              THEN [we |-> [workflow_execution EXCEPT !.status = "completed",
                                                      !.completed_at = TRUE],
                    next |-> "exit", ready |-> <<>>]
              ELSE [we |-> workflow_execution, next |-> "sleep", ready |-> <<>>]
         ELSE [we |-> workflow_execution, next |-> "gather", ready |-> ready_tasks]

\* Mutant: the error kept is that of results[0], not of the failing result.
CheckResults_first_result(workflow_execution, gather_results) ==
    LET IsException(result) == result.kind = "raise"
        failures == SelectSeq(gather_results, IsException)
    IN  IF failures = <<>>
        THEN workflow_execution
        ELSE [workflow_execution EXCEPT
                !.status = "failed",
                !.error = IF IsException(Head(gather_results))
                          THEN Str(Head(gather_results).message)
                          ELSE None,
                !.completed_at = TRUE]

\* Mutant: the loop over the results has no break, so the error kept is
\* that of the last exception.
CheckResults_last(workflow_execution, gather_results) ==
    LET IsException(result) == result.kind = "raise"
        failures == SelectSeq(gather_results, IsException)
    IN  IF failures = <<>>
        THEN workflow_execution
        ELSE [workflow_execution EXCEPT
                !.status = "failed",
                !.error = Str(failures[Len(failures)].message),
                !.completed_at = TRUE]

\* The results check after asyncio.gather (lines 290-304): the first
\* exception in the list of results, which is in the order of tasks_to_run,
\* fails the workflow with str(result).
CheckResults(workflow_execution, gather_results) ==
    LET IsException(result) == result.kind = "raise"
        failures == SelectSeq(gather_results, IsException)
    IN  IF failures = <<>>
        THEN workflow_execution
        ELSE [workflow_execution EXCEPT
                !.status = "failed",
                !.error = Str(Head(failures).message),
                !.completed_at = TRUE]

\* Mutant: only a Completed execution is removed by the cleanup.
FinallyRegistry_completed(workflow_execution, registry) ==
    IF workflow_execution.status = "completed"
    THEN registry \ {workflow_execution.id}
    ELSE registry

\* The finally clause (lines 316-319): the registry after it.
FinallyRegistry(workflow_execution, registry) ==
    IF workflow_execution.status \in Terminal
    THEN registry \ {workflow_execution.id}
    ELSE registry

\* del self.active_executions[execution_id] raises KeyError when the id is
\* no longer a key; otherwise the call returns execution_id (line 307).
FinallyOutcome(workflow_execution, registry) ==
    IF workflow_execution.status \in Terminal /\ workflow_execution.id \notin registry
    THEN "raised"
    ELSE "returned"

\* The entry, in the results of a gather, of a task that has not started.
NotStarted == [kind |-> "unstarted"]

\* No gather is in the middle of starting its tasks.
NoBatch == \A e \in ExecutionIds : pc[e] # "starting"

\* The control loop of execution e goes on from `workflow_execution` (its
\* record after what the step did so far) with the registry `registry`.
ControlLoop(e, workflow_execution, registry) ==
    LET step == LoopStep(workflow_execution) IN
    /\ executions' = [executions EXCEPT ![e] = step.we]
    /\ IF step.next = "exit"
       THEN /\ active_executions' = FinallyRegistry(step.we, registry)
            /\ pc' = [pc EXCEPT ![e] = FinallyOutcome(step.we, registry)]
            /\ pending' = [pending EXCEPT ![e] = <<>>]
            /\ gathered' = [gathered EXCEPT ![e] = <<>>]
            /\ results' = [results EXCEPT ![e] = <<>>]
            /\ history' = history
       ELSE IF step.next = "sleep"
       THEN /\ active_executions' = registry
            /\ pc' = [pc EXCEPT ![e] = "sleep"]
            /\ pending' = [pending EXCEPT ![e] = <<>>]
            /\ gathered' = [gathered EXCEPT ![e] = <<>>]
            /\ results' = [results EXCEPT ![e] = <<>>]
            /\ history' = history
       ELSE /\ active_executions' = registry
            /\ pc' = [pc EXCEPT ![e] = "gathered"]
            /\ pending' = [pending EXCEPT ![e] = step.ready]
            /\ gathered' = [gathered EXCEPT ![e] = step.ready]
            /\ results' = [results EXCEPT
                             ![e] = [i \in 1 .. Len(step.ready) |-> NotStarted]]
            /\ history' = [history EXCEPT
                             ![e].rounds = @ + 1,
                             ![e].at_start = step.we.task_executions]

(***************************************************************************)
(* WorkflowEngine._execute_task, in the three pieces the event loop can    *)
(* tell apart: up to the await of bridge.send_message, after its return,   *)
(* and the exception handler.                                              *)
(***************************************************************************)
\* lines 165-170: the TaskExecution is created RUNNING and stored.
StartTask(workflow_execution, task_def) ==
    [workflow_execution EXCEPT
        !.task_executions = Put(@, task_def.id, TaskExecution(task_def))]

\* lines 192-194: result stored, status COMPLETED.
CompleteTask(workflow_execution, task_def, result) ==
    [workflow_execution EXCEPT
        !.task_executions[task_def.id] =
            [@ EXCEPT !.result = result, !.status = "completed"]]

\* Mutant: every key of a dict result is written, declared or not.
OutputVariables_all(variables, task_def, result) ==
    IF task_def.outputs # {} /\ result.kind = "dict"
    THEN LET keys == {OutputKey(task_def.id, output_name) :
                         output_name \in DOMAIN result.m}
         IN  [k \in (DOMAIN variables) \cup keys |->
                IF k \in keys THEN result.m[k[3]] ELSE variables[k]]
    ELSE variables

\* Mutant: an output is stored under its own name, without the task id.
OutputVariables_bare(variables, task_def, result) ==
    IF task_def.outputs # {} /\ result.kind = "dict"
    THEN LET written == {output_name \in task_def.outputs :
                            output_name \in DOMAIN result.m}
             keys == {<<output_name>> : output_name \in written}
         IN  [k \in (DOMAIN variables) \cup keys |->
                IF k \in keys THEN result.m[k[1]] ELSE variables[k]]
    ELSE variables

\* lines 196-200: the declared outputs found in a dict result are written
\* to the variable space.
OutputVariables(variables, task_def, result) ==
    IF task_def.outputs # {} /\ result.kind = "dict"
    THEN LET written == {output_name \in task_def.outputs :
                            output_name \in DOMAIN result.m}
             keys == {OutputKey(task_def.id, output_name) : output_name \in written}
         IN  [k \in (DOMAIN variables) \cup keys |->
                IF k \in keys THEN result.m[k[3]] ELSE variables[k]]
    ELSE variables

\* lines 205-208: error stored, status FAILED.
FailTask(workflow_execution, task_def, message) ==
    [workflow_execution EXCEPT
        !.task_executions[task_def.id] =
            [@ EXCEPT !.error = Str(message), !.status = "failed"]]

\* What bridge.send_message does with one dispatch: it suspends (the answer
\* comes later), or it returns or raises before it ever suspends
\* (bridge.py raises ValueError for a target that is not connected without
\* awaiting anything that suspends).
Answers(framework) ==
    {[kind |-> "return", value |-> r] : r \in Replies(framework)}
        \cup {[kind |-> "raise", message |-> m] : m \in Errors(framework)}

Outcomes(framework) == {[kind |-> "suspend"]} \cup Answers(framework)

AllAnswers == UNION {Answers(framework) : framework \in Frameworks}

AllOutcomes == UNION {Outcomes(framework) : framework \in Frameworks}

\* The execution record after the dispatch of task_def ended with `answer`.
Settle(workflow_execution, task_def, answer) ==
    IF answer.kind = "return"
    THEN CompleteTask(workflow_execution, task_def, answer.value)
    ELSE IF answer.kind = "raise"
    THEN FailTask(workflow_execution, task_def, answer.message)
    ELSE workflow_execution

\* Mutant: the outputs are not written by the time the dispatch has
\* returned.
SettleVariables_later(variables, task_def, answer) == variables

\* The variable space after the dispatch of task_def ended with `answer`.
SettleVariables(variables, task_def, answer) ==
    IF answer.kind = "return"
    THEN OutputVariables(variables, task_def, answer.value)
    ELSE variables

(***************************************************************************)
(* Actions                                                                 *)
(***************************************************************************)
\* WorkflowEngine.register_workflow
register_workflow(workflow_def) ==
    /\ NoBatch
    /\ workflow_definitions' =
          Put(workflow_definitions, workflow_def.id,
              _calculate_start_end_tasks(workflow_def))
    /\ lastCall' = Idle
    /\ UNCHANGED <<active_executions, executions, dicts, pc, pending, gathered, results,
                   history>>
    /\ UNCHANGED <<builder, built>>

\* Mutant: the execution is stored before the definition is looked up.
execute_workflow_store_first(workflow_id, input_variables) ==
    /\ NoBatch
    /\ \E e \in ExecutionIds : pc[e] = "idle"
    /\ LET e == CHOOSE i \in ExecutionIds : pc[i] = "idle" IN
       /\ active_executions' = active_executions \cup {e}
       /\ lastCall' = Call("execute_workflow", 0, workflow_id,
                           IF workflow_id \in DOMAIN workflow_definitions
                           THEN None ELSE [kind |-> "ValueError"])
    /\ UNCHANGED <<workflow_definitions, executions, dicts, pc, pending, gathered, results,
                   history>>
    /\ UNCHANGED <<builder, built>>

\* `variables=input_variables or {}`: a fresh dict for None or an empty
\* dict, the callers' own dict object otherwise.
VariablesRef(e, input_variables) ==
    IF input_variables = "None" \/ dicts[CallerDict] = EmptyMap
    THEN e
    ELSE CallerDict

\* WorkflowEngine.execute_workflow, from the call to its first suspension.
execute_workflow(workflow_id, input_variables) ==
    /\ NoBatch
    /\ IF workflow_id \notin DOMAIN workflow_definitions
       THEN /\ lastCall' = Call("execute_workflow", 0, workflow_id,
                                [kind |-> "ValueError"])
            /\ UNCHANGED <<workflow_definitions, active_executions, executions,
                           dicts, pc, pending, gathered, results, history>>
       ELSE /\ \E e \in ExecutionIds : pc[e] = "idle"
            /\ LET e == CHOOSE i \in ExecutionIds :
                            /\ pc[i] = "idle"
                            /\ \A j \in ExecutionIds : pc[j] = "idle" => i <= j
                   workflow_execution ==
                       WorkflowExecution(workflow_definitions[workflow_id], e,
                                         VariablesRef(e, input_variables))
               IN  /\ ControlLoop(e, workflow_execution, active_executions \cup {e})
                   /\ lastCall' = Call("execute_workflow", e, workflow_id, None)
            /\ UNCHANGED <<workflow_definitions, dicts>>
    /\ UNCHANGED <<builder, built>>

\* The next task of the gather is started: _execute_task runs up to the
\* await of send_message, and beyond it if send_message does not suspend.
TaskStart(e, outcome) ==
    /\ pc[e] \in {"gathered", "starting"}
    /\ pending[e] # <<>>
    /\ \A o \in ExecutionIds \ {e} : pc[o] # "starting"
    /\ LET task_def == Head(pending[e])
           workflow_execution == executions[e]
       IN  /\ outcome \in Outcomes(task_def.framework)
           /\ executions' = [executions EXCEPT
                 ![e] = Settle(StartTask(workflow_execution, task_def),
                               task_def, outcome)]
           /\ dicts' = [dicts EXCEPT
                 ![workflow_execution.variables] =
                     SettleVariables(@, task_def, outcome)]
           /\ history' = [history EXCEPT
                 ![e].dispatched = Put(@, task_def.id, history[e].rounds),
                 ![e].inputs =
                     Put(@, task_def.id,
                         _resolve_inputs(task_def,
                                         StartTask(workflow_execution, task_def)))]
    /\ results' = [results EXCEPT
                     ![e][Len(gathered[e]) - Len(pending[e]) + 1] = outcome]
    /\ pending' = [pending EXCEPT ![e] = Tail(@)]
    /\ pc' = [pc EXCEPT ![e] = IF Tail(pending[e]) = <<>> THEN "await" ELSE "starting"]
    /\ lastCall' = Idle
    /\ UNCHANGED <<workflow_definitions, active_executions, gathered>>
    /\ UNCHANGED <<builder, built>>

\* The TaskExecution that the i-th task of the gather of e created is the
\* one the task map holds under its id: no task of the gather started after
\* it has stored a TaskExecution under the same id (line 170).
Owns(e, i) ==
    \A j \in (i + 1) .. Len(gathered[e]) :
        gathered[e][j].id = gathered[e][i].id => results[e][j] = NotStarted

\* A suspended bridge.send_message returns or raises: the i-th task of the
\* gather runs _execute_task from line 192, or from line 205, to its end.
\* It writes to the TaskExecution it created, which is the one in the task
\* map unless a later task of the gather has replaced it.
TaskReturn(e, i, answer) ==
    /\ NoBatch
    /\ i \in 1 .. Len(results[e])
    /\ results[e][i].kind = "suspend"
    /\ LET workflow_execution == executions[e]
           task_def == gathered[e][i]
       IN  /\ answer \in Answers(task_def.framework)
           /\ executions' = [executions EXCEPT
                 ![e] = IF Owns(e, i)
                        THEN Settle(workflow_execution, task_def, answer)
                        ELSE workflow_execution]
           /\ dicts' = [dicts EXCEPT
                 ![workflow_execution.variables] =
                     SettleVariables(@, task_def, answer)]
    /\ results' = [results EXCEPT ![e][i] = answer]
    /\ lastCall' = Idle
    /\ UNCHANGED <<workflow_definitions, active_executions, pc, pending, gathered,
                   history>>
    /\ UNCHANGED <<builder, built>>

\* Mutant: the gather returns as soon as one of its tasks is done.
GatherDone_first(e) ==
    \E i \in 1 .. Len(results[e]) : results[e][i].kind \in {"return", "raise"}

\* Every task of the gather is done: it returned or raised.
GatherDone(e) ==
    \A i \in 1 .. Len(results[e]) : results[e][i].kind \in {"return", "raise"}

\* asyncio.gather returns: the control loop checks the results and, when
\* none is an exception, goes round the loop again (lines 288-304).
RoundEnd(e) ==
    /\ NoBatch
    /\ pc[e] = "await"
    /\ GatherDone(e)
    /\ ControlLoop(e, CheckResults(executions[e], results[e]), active_executions)
    /\ lastCall' = Idle
    /\ UNCHANGED <<workflow_definitions, dicts>>
    /\ UNCHANGED <<builder, built>>

\* Mutant: a control loop that wakes up from the sleep gives the execution
\* up as Failed.
PollWake_give_up(e) ==
    /\ NoBatch
    /\ pc[e] = "sleep"
    /\ ControlLoop(e,
                   IF executions[e].status = "running"
                   THEN [executions[e] EXCEPT !.status = "failed",
                                              !.completed_at = TRUE]
                   ELSE executions[e],
                   active_executions)
    /\ lastCall' = Idle
    /\ UNCHANGED <<workflow_definitions, dicts>>
    /\ UNCHANGED <<builder, built>>

\* asyncio.sleep(0.1) returns: the control loop goes round again (279-280).
PollWake(e) ==
    /\ NoBatch
    /\ pc[e] = "sleep"
    /\ ControlLoop(e, executions[e], active_executions)
    /\ lastCall' = Idle
    /\ UNCHANGED <<workflow_definitions, dicts>>
    /\ UNCHANGED <<builder, built>>

\* Mutant: the entry is not deleted from active_executions.
cancel_workflow_keep(execution_id) ==
    /\ NoBatch
    /\ IF execution_id \notin active_executions
       THEN /\ lastCall' = Call("cancel_workflow", execution_id, "",
                                [kind |-> "ValueError"])
            /\ UNCHANGED executions
       ELSE /\ executions' = [executions EXCEPT
                 ![execution_id] = [@ EXCEPT !.status = "cancelled",
                                             !.completed_at = TRUE]]
            /\ lastCall' = Call("cancel_workflow", execution_id, "", None)
    /\ UNCHANGED <<workflow_definitions, active_executions, dicts, pc, pending,
                   gathered, results, history>>
    /\ UNCHANGED <<builder, built>>

\* Mutant: the execution is looked up among all the executions ever
\* created, not among the active ones.
cancel_workflow_any(execution_id) ==
    /\ NoBatch
    /\ IF executions[execution_id] = None
       THEN /\ lastCall' = Call("cancel_workflow", execution_id, "",
                                [kind |-> "ValueError"])
            /\ UNCHANGED <<active_executions, executions>>
       ELSE /\ executions' = [executions EXCEPT
                 ![execution_id] = [@ EXCEPT !.status = "cancelled",
                                             !.completed_at = TRUE]]
            /\ active_executions' = active_executions \ {execution_id}
            /\ lastCall' = Call("cancel_workflow", execution_id, "", None)
    /\ UNCHANGED <<workflow_definitions, dicts, pc, pending, gathered, results, history>>
    /\ UNCHANGED <<builder, built>>

\* WorkflowEngine.cancel_workflow
cancel_workflow(execution_id) ==
    /\ NoBatch
    /\ IF execution_id \notin active_executions
       THEN /\ lastCall' = Call("cancel_workflow", execution_id, "",
                                [kind |-> "ValueError"])
            /\ UNCHANGED <<active_executions, executions>>
       ELSE /\ executions' = [executions EXCEPT
                 ![execution_id] = [@ EXCEPT !.status = "cancelled",
                                             !.completed_at = TRUE]]
            /\ active_executions' = active_executions \ {execution_id}
            /\ lastCall' = Call("cancel_workflow", execution_id, "", None)
    /\ UNCHANGED <<workflow_definitions, dicts, pc, pending, gathered, results, history>>
    /\ UNCHANGED <<builder, built>>

\* self.active_executions.get(execution_id)
ActiveGet(execution_id) ==
    IF execution_id \in active_executions THEN executions[execution_id] ELSE None

\* WorkflowEngine.get_workflow_status
get_workflow_status(execution_id) ==
    /\ NoBatch
    /\ lastCall' = Call("get_workflow_status", execution_id, "",
                        ActiveGet(execution_id))
    /\ UNCHANGED <<workflow_definitions, active_executions, executions, dicts, pc,
                   pending, gathered, results, history>>
    /\ UNCHANGED <<builder, built>>

\* The value WorkflowEngine.get_workflow_result returns.
WorkflowResult(execution_id) ==
    LET execution == ActiveGet(execution_id) IN
    IF execution # None /\ execution.status = "completed"
    THEN [kind |-> "summary",
          status |-> execution.status,
          variables |-> dicts[execution.variables],
          task_results |->
              [t \in {t \in DOMAIN execution.task_executions :
                        execution.task_executions[t].status = "completed"} |->
                  execution.task_executions[t].result]]
    ELSE None

\* WorkflowEngine.get_workflow_result
get_workflow_result(execution_id) ==
    /\ NoBatch
    /\ lastCall' = Call("get_workflow_result", execution_id, "",
                        WorkflowResult(execution_id))
    /\ UNCHANGED <<workflow_definitions, active_executions, executions, dicts, pc,
                   pending, gathered, results, history>>
    /\ UNCHANGED <<builder, built>>

\* The positions a task can have in the list handed to asyncio.gather: no
\* definition the callers register has more tasks than References.
GatherPositions == 1 .. Len(References.tasks)

Next ==
    \/ \E workflow_def \in Catalog : register_workflow(workflow_def)
    \/ \E workflow_id \in WorkflowIds, input_variables \in InputVariables :
          execute_workflow(workflow_id, input_variables)
    \/ \E e \in ExecutionIds, outcome \in AllOutcomes : TaskStart(e, outcome)
    \/ \E e \in ExecutionIds, i \in GatherPositions, answer \in AllAnswers :
          TaskReturn(e, i, answer)
    \/ \E e \in ExecutionIds : RoundEnd(e)
    \/ \E e \in ExecutionIds : PollWake(e)
    \/ \E execution_id \in ExecutionIds : cancel_workflow(execution_id)
    \/ \E execution_id \in ExecutionIds : get_workflow_status(execution_id)
    \/ \E execution_id \in ExecutionIds : get_workflow_result(execution_id)

Spec == Init /\ [][Next]_vars

\* The definition objects the engine holds: register_workflow sets their
\* start_tasks and end_tasks in place, so a caller that registers its
\* definition again passes it with these set.
Registered == {workflow_definitions[id] : id \in DOMAIN workflow_definitions}

(***************************************************************************)
(* WorkflowBuilder                                                         *)
(***************************************************************************)
Digits == <<"0", "1", "2", "3", "4", "5", "6", "7", "8", "9">>

\* str(n) of a natural number, as the sequence of its decimal digits.
RECURSIVE Decimal(_)
Decimal(n) ==
    IF n < 10
    THEN <<Digits[n + 1]>>
    ELSE Decimal(n \div 10) \o <<Digits[(n % 10) + 1]>>

\* f"task_{self.task_count}"
TaskId(task_count) == <<"task_">> \o Decimal(task_count)

\* WorkflowBuilder.add_task
add_task(framework, dependencies) ==
    /\ Len(builder.tasks) < MaxTasks
    /\ builder' =
          [tasks |-> Append(builder.tasks,
                            TaskDefinition(TaskId(builder.task_count), framework,
                                           EmptyMap, {}, dependencies)),
           task_count |-> builder.task_count + 1]
    /\ UNCHANGED <<workflow_definitions, active_executions, executions, dicts, pc,
                   pending, gathered, results, history, lastCall, built>>

\* Mutant: task_count is not reset for the next workflow.
build_keep_count(workflow_id) ==
    /\ Len(built) < MaxBuilt
    /\ built' = Append(built, WorkflowDefinition(workflow_id, builder.tasks))
    /\ builder' = [tasks |-> <<>>, task_count |-> builder.task_count]
    /\ UNCHANGED <<workflow_definitions, active_executions, executions, dicts, pc,
                   pending, gathered, results, history, lastCall>>

\* WorkflowBuilder.build: the definition holds a copy of the list of tasks,
\* and the builder starts again with a new empty list and task_count 0.
build(workflow_id) ==
    /\ Len(built) < MaxBuilt
    /\ built' = Append(built, WorkflowDefinition(workflow_id, builder.tasks))
    /\ builder' = [tasks |-> <<>>, task_count |-> 0]
    /\ UNCHANGED <<workflow_definitions, active_executions, executions, dicts, pc,
                   pending, gathered, results, history, lastCall>>

\* The callers of one builder: a task added depends on nothing or on
\* task_0.
BuilderNext ==
    \/ \E dependencies \in {{}, {TaskId(0)}} : add_task("crewai", dependencies)
    \/ build("wf1")

BuilderSpec == Init /\ [][BuilderNext]_vars

(***************************************************************************)
(* The registry of definitions of an engine whose callers register one of  *)
(* the generated definitions, and register again what they registered.     *)
(***************************************************************************)
RegisterNext ==
    \E workflow_def \in IF workflow_definitions = EmptyMap
                         THEN Definitions
                         ELSE Registered :
        register_workflow(workflow_def)

RegisterSpec == Init /\ [][RegisterNext]_vars

(***************************************************************************)
(* The engine running the definition References, for callers that pass     *)
(* None or their dict as input_variables and wait for the call to end.     *)
(***************************************************************************)
ResolveNext ==
    \/ register_workflow(References)
    \/ \E input_variables \in {"None", "dict"} :
          execute_workflow(References.id, input_variables)
    \/ \E e \in ExecutionIds, outcome \in AllOutcomes : TaskStart(e, outcome)
    \/ \E e \in ExecutionIds, i \in GatherPositions, answer \in AllAnswers :
          TaskReturn(e, i, answer)
    \/ \E e \in ExecutionIds : RoundEnd(e)

ResolveSpec == Init /\ [][ResolveNext]_vars

(***************************************************************************)
(* The engine with callers that register, register again what they         *)
(* registered, execute, and never cancel,                                  *)
(* under the scheduling of the event loop: a task handed to asyncio.gather *)
(* is started, a control loop whose gather or sleep is over is resumed,    *)
(* and every dispatch eventually returns or raises.                        *)
(***************************************************************************)
LiveNext ==
    \/ \E workflow_def \in Catalog : register_workflow(workflow_def)
    \/ \E workflow_def \in Registered : register_workflow(workflow_def)
    \/ \E workflow_id \in WorkflowIds, input_variables \in InputVariables :
          execute_workflow(workflow_id, input_variables)
    \/ \E e \in ExecutionIds, outcome \in AllOutcomes : TaskStart(e, outcome)
    \/ \E e \in ExecutionIds, i \in GatherPositions, answer \in AllAnswers :
          TaskReturn(e, i, answer)
    \/ \E e \in ExecutionIds : RoundEnd(e)
    \/ \E e \in ExecutionIds : PollWake(e)

Fairness ==
    /\ \A e \in ExecutionIds :
          WF_vars(\E outcome \in AllOutcomes : TaskStart(e, outcome))
    /\ \A e \in ExecutionIds, i \in GatherPositions :
          WF_vars(\E answer \in AllAnswers : TaskReturn(e, i, answer))
    /\ \A e \in ExecutionIds : WF_vars(RoundEnd(e))
    /\ \A e \in ExecutionIds : WF_vars(PollWake(e))

LiveSpec == Init /\ [][LiveNext]_vars /\ Fairness

\* The same callers, whatever the scheduling.
RunSpec == Init /\ [][LiveNext]_vars

(***************************************************************************)
(* The engine with callers that register the fan-out definition and a      *)
(* definition with two tasks of the same id, execute them and cancel.      *)
(***************************************************************************)
DuplicateNext ==
    \/ \E workflow_def \in {FanOut, Twins} : register_workflow(workflow_def)
    \/ \E workflow_id \in {FanOut.id, Twins.id} :
          execute_workflow(workflow_id, "None")
    \/ \E e \in ExecutionIds, outcome \in AllOutcomes : TaskStart(e, outcome)
    \/ \E e \in ExecutionIds, i \in GatherPositions, answer \in AllAnswers :
          TaskReturn(e, i, answer)
    \/ \E e \in ExecutionIds : RoundEnd(e)
    \/ \E e \in ExecutionIds : PollWake(e)
    \/ \E execution_id \in ExecutionIds : cancel_workflow(execution_id)

DuplicateSpec == Init /\ [][DuplicateNext]_vars

(***************************************************************************)
(* The engine with callers that register definitions whose dependency      *)
(* graph has a cycle, execute them and cancel, under the scheduling of the *)
(* event loop.                                                             *)
(***************************************************************************)
CycleNext ==
    \/ \E workflow_def \in {Cyclic, Knot} : register_workflow(workflow_def)
    \/ \E workflow_id \in {Cyclic.id, Knot.id} :
          execute_workflow(workflow_id, "None")
    \/ \E e \in ExecutionIds, outcome \in AllOutcomes : TaskStart(e, outcome)
    \/ \E e \in ExecutionIds, i \in GatherPositions, answer \in AllAnswers :
          TaskReturn(e, i, answer)
    \/ \E e \in ExecutionIds : RoundEnd(e)
    \/ \E e \in ExecutionIds : PollWake(e)
    \/ \E execution_id \in ExecutionIds : cancel_workflow(execution_id)

CycleSpec == Init /\ [][CycleNext]_vars /\ Fairness

(***************************************************************************)
(* The engine running the definition Joined, for callers that pass None or *)
(* their dict as input_variables and wait for the call to end.             *)
(***************************************************************************)
JoinedNext ==
    \/ register_workflow(Joined)
    \/ \E input_variables \in {"None", "dict"} :
          execute_workflow(Joined.id, input_variables)
    \/ \E e \in ExecutionIds, outcome \in AllOutcomes : TaskStart(e, outcome)
    \/ \E e \in ExecutionIds, i \in GatherPositions, answer \in AllAnswers :
          TaskReturn(e, i, answer)
    \/ \E e \in ExecutionIds : RoundEnd(e)

JoinedSpec == Init /\ [][JoinedNext]_vars

(***************************************************************************)
(* The engine with callers that register the fan-out definition and a      *)
(* definition with a dependency that names no task, and execute them.      *)
(***************************************************************************)
StartNext ==
    \/ \E workflow_def \in {FanOut, Dangling} : register_workflow(workflow_def)
    \/ \E workflow_id \in {FanOut.id, Dangling.id} :
          execute_workflow(workflow_id, "None")
    \/ \E e \in ExecutionIds, outcome \in AllOutcomes : TaskStart(e, outcome)
    \/ \E e \in ExecutionIds, i \in GatherPositions, answer \in AllAnswers :
          TaskReturn(e, i, answer)
    \/ \E e \in ExecutionIds : RoundEnd(e)
    \/ \E e \in ExecutionIds : PollWake(e)

StartSpec == Init /\ [][StartNext]_vars

(***************************************************************************)
(* Properties                                                              *)
(***************************************************************************)
Created(e) == executions[e] # None

TaskMap(e) == executions[e].task_executions

Tasks(e) == executions[e].workflow_def.tasks

\* The control loop of e has ended (execute_workflow returned or raised).
LoopEnded(e) == pc[e] \in {"returned", "raised"}

\* C1: monotonic gating.  In every reachable state, every task that has a
\* TaskExecution has all its dependencies in the task map of the same
\* execution with status Completed; as Completed is never left, this holds
\* in particular in the state where the TaskExecution is created.
C1_MonotonicGating ==
    \A e \in ExecutionIds :
        Created(e) =>
            \A t \in DOMAIN TaskMap(e) :
                \A d \in TaskMap(e)[t].task_def.dependencies :
                    /\ d \in DOMAIN TaskMap(e)
                    /\ TaskMap(e)[d].status = "completed"

\* C1 witness: B is Running after its dependency A Completed.
C1_Witness ==
    \E e \in ExecutionIds :
        /\ Created(e)
        /\ {"A", "B"} \subseteq DOMAIN TaskMap(e)
        /\ "A" \in TaskMap(e)["B"].task_def.dependencies
        /\ TaskMap(e)["B"].status = "running"
        /\ TaskMap(e)["A"].status = "completed"

FailedTasks(e) == {t \in DOMAIN TaskMap(e) : TaskMap(e)[t].status = "failed"}

\* C2 as stated: when the control loop has ended and a task is Failed, the
\* workflow is Failed with a non-empty error that is the error of a failed
\* task.
C2_FailFastNonEmptyError ==
    \A e \in ExecutionIds :
        (Created(e) /\ LoopEnded(e) /\ FailedTasks(e) # {}) =>
            /\ executions[e].status = "failed"
            /\ executions[e].error \in {TaskMap(e)[t].error : t \in FailedTasks(e)}
            /\ executions[e].error.kind = "str"
            /\ executions[e].error.s # ""

\* C2 amended, final state: when the control loop has ended and a task is
\* Failed, the workflow is Failed and its error is the error string stored
\* on a failed task (which may be the empty string).
C2_FailedAtEnd ==
    \A e \in ExecutionIds :
        (Created(e) /\ LoopEnded(e) /\ FailedTasks(e) # {}) =>
            /\ executions[e].status = "failed"
            /\ executions[e].error.kind = "str"
            /\ executions[e].error \in {TaskMap(e)[t].error : t \in FailedTasks(e)}

\* C2 amended, retention: a Completed task keeps its status and its result
\* in every step.
C2_CompletedKept ==
    \A e \in ExecutionIds :
        Created(e) =>
            \A t \in DOMAIN TaskMap(e) :
                TaskMap(e)[t].status = "completed" =>
                    /\ t \in DOMAIN executions'[e].task_executions
                    /\ executions'[e].task_executions[t].status = "completed"
                    /\ executions'[e].task_executions[t].result = TaskMap(e)[t].result

\* C2 amended (fail fast): a failed task fails the workflow with that
\* task's error string, empty or not, once the round is over, and the tasks
\* completed before keep their status and result.
C2_FailFast == []C2_FailedAtEnd /\ [][C2_CompletedKept]_vars

\* C2 witness: the workflow is Failed with the error of a failed task while
\* an earlier task is still Completed with its result.
C2_Witness ==
    \E e \in ExecutionIds :
        /\ Created(e)
        /\ LoopEnded(e)
        /\ executions[e].status = "failed"
        /\ executions[e].error = Str("not connected")
        /\ \E t \in DOMAIN TaskMap(e) :
              TaskMap(e)[t].status = "completed" /\ TaskMap(e)[t].result # None
        /\ \E t \in FailedTasks(e) : TaskMap(e)[t].error = executions[e].error

\* C3 as stated (Execute never blocks for completion): whenever an
\* execution is Running, the execute_workflow call that created it has
\* returned its execution id.
C3_ExecuteReturnsWhileRunning ==
    \A e \in ExecutionIds :
        (Created(e) /\ executions[e].status = "running") => pc[e] = "returned"

\* C4 as stated: get_workflow_result called with the id of an execution
\* that completed successfully, by the caller that got the id back, returns
\* the summary rather than None.
C4_ResultAfterCompletion ==
    (/\ lastCall.op = "get_workflow_result"
     /\ Created(lastCall.id)
     /\ executions[lastCall.id].status = "completed"
     /\ pc[lastCall.id] = "returned")
        => lastCall.result.kind = "summary"

\* C5: a cancel_workflow call on an execution that is in the registry
\* returns normally and, in the state right after it, the execution is out
\* of the registry, get_workflow_status reports not found, and the record
\* has status Cancelled and an end time.
C5_CancelStep ==
    (lastCall'.op = "cancel_workflow" /\ lastCall'.id \in active_executions) =>
        /\ lastCall'.result = None
        /\ \A execution_id \in ExecutionIds :
              execution_id = lastCall'.id => ActiveGet(execution_id)' = None
        /\ executions'[lastCall'.id].status = "cancelled"
        /\ executions'[lastCall'.id].completed_at

C5_CancelRemovesAtOnce == [][C5_CancelStep]_vars

\* C5 witness: right after a successful cancel of an execution whose task
\* is still in flight.
C5_Witness ==
    /\ lastCall.op = "cancel_workflow"
    /\ lastCall.result = None
    /\ executions[lastCall.id].status = "cancelled"
    /\ lastCall.id \notin active_executions
    /\ \E t \in DOMAIN TaskMap(lastCall.id) : TaskMap(lastCall.id)[t].status = "running"

\* C6 as stated: a terminal workflow status is never changed by any step.
C6_TerminalStep ==
    \A e \in ExecutionIds :
        (Created(e) /\ executions[e].status \in Terminal) =>
            executions'[e].status = executions[e].status

C6_TerminalAbsorbing == [][C6_TerminalStep]_vars

\* C7: cancel_workflow with an id that is not in the registry raises
\* ValueError and changes neither the registry, nor an execution, nor a
\* definition.
C7_CancelUnknownStep ==
    (lastCall'.op = "cancel_workflow" /\ lastCall'.id \notin active_executions) =>
        /\ lastCall'.result.kind = "ValueError"
        /\ UNCHANGED <<active_executions, executions, workflow_definitions>>

C7_CancelUnknown == [][C7_CancelUnknownStep]_vars

\* C7 witness: a cancel of an execution that was cancelled before raised
\* ValueError.
C7_Witness ==
    /\ lastCall.op = "cancel_workflow"
    /\ lastCall.result.kind = "ValueError"
    /\ Created(lastCall.id)
    /\ executions[lastCall.id].status = "cancelled"

\* C8: execute_workflow with a workflow id that is not registered raises
\* ValueError and creates no execution and dispatches nothing;
\* get_workflow_status with an id that is not in the registry returns None;
\* neither changes the engine's state.
C8_UnknownIdStep ==
    /\ (lastCall'.op = "execute_workflow"
            /\ lastCall'.wf \notin DOMAIN workflow_definitions) =>
          /\ lastCall'.result.kind = "ValueError"
          /\ UNCHANGED <<workflow_definitions, active_executions, executions, dicts,
                         pc, pending, gathered>>
    /\ (lastCall'.op = "get_workflow_status"
            /\ lastCall'.id \notin active_executions) =>
          /\ lastCall'.result = None
          /\ UNCHANGED <<workflow_definitions, active_executions, executions, dicts,
                         pc, pending, gathered>>

C8_UnknownIds == [][C8_UnknownIdStep]_vars

\* C8 witness: execute_workflow of an unregistered id raised ValueError
\* while another execution is active.
C8_Witness ==
    /\ lastCall.op = "execute_workflow"
    /\ lastCall.result.kind = "ValueError"
    /\ lastCall.wf \notin DOMAIN workflow_definitions
    /\ active_executions # {}

\* Every task of the definition of e has an empty dependency list.
IndependentTasks(e) ==
    \A i \in 1 .. Len(Tasks(e)) : Tasks(e)[i].dependencies = {}

\* C9 as stated: when the last task of the first round of a workflow of
\* independent tasks has been started, all N TaskExecutions are Running.
C9_AllRunningStep ==
    \A e \in ExecutionIds :
        (/\ Created(e)
         /\ IndependentTasks(e)
         /\ pc[e] \in {"gathered", "starting"}
         /\ pc'[e] = "await") =>
            \A t \in TaskIdSet(Tasks(e)) :
                /\ t \in DOMAIN executions'[e].task_executions
                /\ executions'[e].task_executions[t].status = "running"

C9_AllRunningTogether == [][C9_AllRunningStep]_vars

\* C9 amended: for a workflow of N independent tasks there is one round
\* only; once its tasks have been started every one of the N tasks has a
\* TaskExecution, dispatched in round 1.
C9_SingleRound ==
    \A e \in ExecutionIds :
        (Created(e) /\ IndependentTasks(e)) =>
            /\ history[e].rounds <= 1
            /\ pc[e] \notin {"gathered", "starting"} =>
                  /\ DOMAIN TaskMap(e) = TaskIdSet(Tasks(e))
                  /\ \A t \in DOMAIN TaskMap(e) : history[e].dispatched[t] = 1

\* C9 witness: both tasks of the independent workflow are Running together.
C9_Witness ==
    \E e \in ExecutionIds :
        /\ Created(e)
        /\ IndependentTasks(e)
        /\ Len(Tasks(e)) >= 2
        /\ pc[e] = "await"
        /\ DOMAIN TaskMap(e) = TaskIdSet(Tasks(e))
        /\ \A t \in DOMAIN TaskMap(e) : TaskMap(e)[t].status = "running"

\* The tasks of e that were ready in the task map `task_map`.
ReadyIn(e, task_map) ==
    {Tasks(e)[i].id : i \in
        {i \in 1 .. Len(Tasks(e)) :
            /\ Tasks(e)[i].id \notin DOMAIN task_map
            /\ \A d \in Tasks(e)[i].dependencies :
                  d \in DOMAIN task_map /\ task_map[d].status = "completed"}}

\* The tasks of e dispatched in the current round.
DispatchedNow(e) ==
    {t \in DOMAIN history[e].dispatched : history[e].dispatched[t] = history[e].rounds}

\* C10: when the tasks of a round have been started, the tasks dispatched
\* in that round are exactly the tasks that were ready at the start of the
\* round; B and C of the fan-out workflow are dispatched in the same round.
C10_RoundIsReadySet ==
    \A e \in ExecutionIds :
        Created(e) =>
            /\ pc[e] = "await" =>
                  DispatchedNow(e) = ReadyIn(e, history[e].at_start)
            /\ (pc[e] # "starting" /\ executions[e].workflow_def.id = FanOut.id) =>
                  /\ "B" \in DOMAIN TaskMap(e) <=> "C" \in DOMAIN TaskMap(e)
                  /\ "B" \in DOMAIN TaskMap(e) =>
                        history[e].dispatched["B"] = history[e].dispatched["C"]

\* C10 witness: B and C were dispatched in round 2, after A completed in
\* round 1.
C10_Witness ==
    \E e \in ExecutionIds :
        /\ Created(e)
        /\ pc[e] = "await"
        /\ history[e].rounds = 2
        /\ DispatchedNow(e) = {"B", "C"}
        /\ TaskMap(e)["A"].status = "completed"

\* C11: in every reachable state, a task that lists a Failed task as a
\* dependency has no TaskExecution in the task map of that execution (so it
\* was never dispatched: a TaskExecution is never removed and Failed is never
\* left), and once the control loop has ended the workflow is Failed.
C11_FailedDependencyBlocks ==
    \A e \in ExecutionIds :
        Created(e) =>
            \A i \in 1 .. Len(Tasks(e)) :
                (Tasks(e)[i].dependencies \cap FailedTasks(e) # {}) =>
                    /\ Tasks(e)[i].id \notin DOMAIN TaskMap(e)
                    /\ LoopEnded(e) => executions[e].status = "failed"

\* C11 witness: A failed, the control loop has ended with the workflow
\* Failed, and B, which depends on A, has no TaskExecution.
C11_Witness ==
    \E e \in ExecutionIds :
        /\ Created(e)
        /\ LoopEnded(e)
        /\ executions[e].status = "failed"
        /\ "A" \in FailedTasks(e)
        /\ \E i \in 1 .. Len(Tasks(e)) :
              /\ Tasks(e)[i].id = "B"
              /\ "A" \in Tasks(e)[i].dependencies
        /\ "B" \notin DOMAIN TaskMap(e)

\* The task ids of `tasks` are unique, every dependency is an id of `tasks`
\* and the dependency graph has no cycle (the tasks can be ranked so that
\* every dependency ranks below its dependent).
WellFormed(tasks) ==
    /\ \A i, j \in 1 .. Len(tasks) : tasks[i].id = tasks[j].id => i = j
    /\ \A i \in 1 .. Len(tasks) : tasks[i].dependencies \subseteq TaskIdSet(tasks)
    /\ \E rank \in [1 .. Len(tasks) -> 1 .. Len(tasks)] :
          \A i, j \in 1 .. Len(tasks) :
              tasks[j].id \in tasks[i].dependencies => rank[j] < rank[i]

\* The control loop of e has ended with the terminal status the dispatches
\* call for: Failed when a task failed, Completed, with every task
\* Completed, otherwise.
EndedAsDue(e) ==
    /\ pc[e] = "returned"
    /\ IF FailedTasks(e) # {}
       THEN executions[e].status = "failed"
       ELSE /\ executions[e].status = "completed"
            /\ \A t \in TaskIdSet(Tasks(e)) :
                  t \in DOMAIN TaskMap(e) /\ TaskMap(e)[t].status = "completed"

\* C12: liveness.  When nobody cancels and every dispatch eventually
\* returns or raises, an execution of a definition with unique task ids and
\* an acyclic dependency graph over its own task ids eventually ends:
\* Completed when every dispatch succeeded, Failed otherwise.
C12_Terminates ==
    \A e \in ExecutionIds :
        (Created(e) /\ WellFormed(Tasks(e))) ~> EndedAsDue(e)

\* C12 witness: the fan-out workflow has ended Completed after two rounds.
C12_Witness ==
    \E e \in ExecutionIds :
        /\ Created(e)
        /\ WellFormed(Tasks(e))
        /\ history[e].rounds = 2
        /\ EndedAsDue(e)
        /\ executions[e].status = "completed"

\* The step starts the next task of the gather of e.
Dispatches(e) == pending[e] # <<>> /\ pending'[e] = Tail(pending[e])

\* The task map _resolve_inputs reads in such a step: that of e with the
\* Running TaskExecution of the task being started.
MapAtDispatch(e) == StartTask(executions[e], Head(pending[e])).task_executions

\* The inputs handed to the dispatch channel in such a step.
DispatchedInputs(e) == history'[e].inputs[Head(pending[e]).id]

\* An input value of the form ${taskId.outputName}, and its two names.
IsOutputReference(value) ==
    /\ value.kind = "str"
    /\ Len(value.tokens) = 5
    /\ value.tokens[1] = "${" /\ value.tokens[3] = "." /\ value.tokens[5] = "}"
    /\ {value.tokens[2], value.tokens[4]} \cap {"${", ".", "}"} = {}

\* An input value of the form ${name}, where name has no ".".
IsVariableReference(value) ==
    /\ value.kind = "str"
    /\ Len(value.tokens) = 3
    /\ value.tokens[1] = "${" /\ value.tokens[3] = "}"
    /\ value.tokens[2] \notin {"${", ".", "}"}

\* C13 as stated: in every dispatch, an input ${taskId.outputName} is
\* resolved to result[outputName] when taskId is Completed with a map that
\* holds outputName, to the whole result when taskId is Completed with a
\* scalar, and is the original string in every other case.
C13_OutputStep ==
    \A e \in ExecutionIds :
        Dispatches(e) =>
            \A key \in DOMAIN Head(pending[e]).inputs :
                LET value == Head(pending[e]).inputs[key]
                    task_id == value.tokens[2]
                    output_name == value.tokens[4]
                    done == /\ task_id \in DOMAIN MapAtDispatch(e)
                            /\ MapAtDispatch(e)[task_id].status = "completed"
                    result == MapAtDispatch(e)[task_id].result
                IN  IsOutputReference(value) =>
                        /\ key \in DOMAIN DispatchedInputs(e)
                        /\ DispatchedInputs(e)[key] =
                              IF done /\ result.kind = "dict"
                                      /\ output_name \in DOMAIN result.m
                              THEN result.m[output_name]
                              ELSE IF done /\ result.kind = "scalar"
                              THEN result
                              ELSE value

C13_OutputReferences == [][C13_OutputStep]_vars

\* C14: in every dispatch, an input ${name} whose name has no "." is
\* resolved to the value of name in the variable space of the execution when
\* name is a key there, and is the original string otherwise; a dispatch
\* whose task is still Running after the step (nothing but the creation of
\* the TaskExecution and the resolution has happened) leaves every variable
\* space as it was.
C14_VariableStep ==
    \A e \in ExecutionIds :
        Dispatches(e) =>
            /\ \A key \in DOMAIN Head(pending[e]).inputs :
                  LET value == Head(pending[e]).inputs[key]
                      name == <<value.tokens[2]>>
                      variables == dicts[executions[e].variables]
                  IN  IsVariableReference(value) =>
                          /\ key \in DOMAIN DispatchedInputs(e)
                          /\ DispatchedInputs(e)[key] =
                                IF name \in DOMAIN variables
                                THEN variables[name]
                                ELSE value
            /\ executions'[e].task_executions[Head(pending[e]).id].status = "running"
                  => dicts' = dicts

C14_VariableReferences == [][C14_VariableStep]_vars

\* C14 witness: P was dispatched with ${x} resolved to the 5 of the callers'
\* dict and ${y}, which is no variable, left as it was.
C14_Witness ==
    \E e \in ExecutionIds :
        /\ Created(e)
        /\ "P" \in DOMAIN history[e].inputs
        /\ <<"x">> \in DOMAIN dicts[executions[e].variables]
        /\ dicts[executions[e].variables][<<"x">>] = Scalar(5)
        /\ history[e].inputs["P"]["a"] = Scalar(5)
        /\ history[e].inputs["P"]["y"] = Reference(<<"y">>)

\* C15 as stated: in every dispatch, an input that refers to an unknown
\* variable, to a task that has no TaskExecution or is not Completed, or to
\* an output that the map result of a Completed task does not hold, is
\* dispatched under its key with the original string as its value.
C15_UnresolvedStep ==
    \A e \in ExecutionIds :
        Dispatches(e) =>
            \A key \in DOMAIN Head(pending[e]).inputs :
                LET value == Head(pending[e]).inputs[key]
                    task_map == MapAtDispatch(e)
                    unresolved ==
                        \/ /\ IsVariableReference(value)
                           /\ <<value.tokens[2]>> \notin
                                 DOMAIN dicts[executions[e].variables]
                        \/ /\ IsOutputReference(value)
                           /\ \/ value.tokens[2] \notin DOMAIN task_map
                              \/ task_map[value.tokens[2]].status # "completed"
                              \/ /\ task_map[value.tokens[2]].result.kind = "dict"
                                 /\ value.tokens[4] \notin
                                       DOMAIN task_map[value.tokens[2]].result.m
                IN  unresolved =>
                        /\ key \in DOMAIN DispatchedInputs(e)
                        /\ DispatchedInputs(e)[key] = value

C15_UnresolvedPassThrough == [][C15_UnresolvedStep]_vars

\* The positions of the start tasks of `tasks` as the claim describes them.
StartPositions(tasks) ==
    {i \in 1 .. Len(tasks) :
        \/ tasks[i].dependencies = {}
        \/ \A d \in tasks[i].dependencies : \A j \in 1 .. Len(tasks) : tasks[j].id # d}

\* C16: for every registered definition, start_tasks lists, in definition
\* order, exactly the ids of the tasks whose dependency list is empty or
\* holds no id of a task of the workflow; when every dependency list is
\* empty, every task is a start task.
C16_StartTasks ==
    \A id \in DOMAIN workflow_definitions :
        LET def == workflow_definitions[id]
            starts == StartPositions(def.tasks)
        IN  /\ Len(def.start_tasks) = Cardinality(starts)
            /\ \A i \in starts :
                  def.start_tasks[Cardinality({j \in starts : j <= i})] = def.tasks[i].id
            /\ (\A i \in 1 .. Len(def.tasks) : def.tasks[i].dependencies = {}) =>
                  def.start_tasks = [i \in 1 .. Len(def.tasks) |-> def.tasks[i].id]

\* C16 witness: a registered definition where A, which depends only on the
\* unknown id Z, is the one start task and B, which depends on A and Z, is
\* none.
C16_Witness ==
    \E id \in DOMAIN workflow_definitions :
        LET def == workflow_definitions[id] IN
        /\ Len(def.tasks) = 2
        /\ def.tasks[1].id = "A" /\ def.tasks[1].dependencies = {"Z"}
        /\ def.tasks[2].id = "B" /\ def.tasks[2].dependencies = {"A", "Z"}
        /\ def.start_tasks = <<"A">>

\* C17 as stated: for every registered definition, a task is in end_tasks
\* if and only if no other task of the workflow lists its id as a
\* dependency.
C17_EndTasks ==
    \A id \in DOMAIN workflow_definitions :
        LET def == workflow_definitions[id] IN
        \A i \in 1 .. Len(def.tasks) :
            (\E k \in 1 .. Len(def.end_tasks) : def.end_tasks[k] = def.tasks[i].id)
                <=> ~ \E j \in 1 .. Len(def.tasks) :
                          j # i /\ def.tasks[i].id \in def.tasks[j].dependencies

\* C18: a step that leaves the tasks of a registered definition as they
\* were (a registration of the same definition again, or any other step)
\* leaves its start_tasks and end_tasks as they were, and a step that
\* creates or advances an execution changes no registered definition.
C18_DefinitionStep ==
    /\ \A id \in DOMAIN workflow_definitions :
          /\ id \in DOMAIN workflow_definitions'
          /\ workflow_definitions'[id].tasks = workflow_definitions[id].tasks =>
                /\ workflow_definitions'[id].start_tasks =
                      workflow_definitions[id].start_tasks
                /\ workflow_definitions'[id].end_tasks =
                      workflow_definitions[id].end_tasks
    /\ (executions' # executions \/ pc' # pc \/ dicts' # dicts
            \/ active_executions' # active_executions) =>
          workflow_definitions' = workflow_definitions

C18_RegistrationStable == [][C18_DefinitionStep]_vars

\* C18 witness: an execution of the fan-out workflow has ended and the
\* registered definition still has the start task A and the end tasks B, C.
C18_Witness ==
    \E e \in ExecutionIds :
        /\ Created(e)
        /\ LoopEnded(e)
        /\ history[e].rounds = 2
        /\ executions[e].workflow_def.id \in DOMAIN workflow_definitions
        /\ workflow_definitions[executions[e].workflow_def.id] =
              executions[e].workflow_def
        /\ executions[e].workflow_def.start_tasks = <<"A">>
        /\ executions[e].workflow_def.end_tasks = <<"B", "C">>

\* C19, in every state: a definition is stored under its own id, and every
\* task an execution has dispatched is a task of the definition the
\* execution was started with.
C19_OwnTasks ==
    /\ \A id \in DOMAIN workflow_definitions : workflow_definitions[id].id = id
    /\ \A e \in ExecutionIds :
          Created(e) =>
              \A t \in DOMAIN TaskMap(e) :
                  \E i \in 1 .. Len(Tasks(e)) : Tasks(e)[i] = TaskMap(e)[t].task_def

\* C19, in every step: a registration changes the entry of one id only and
\* no execution; execute_workflow runs the definition the registry holds
\* for the id at the time of the call; an execution keeps its definition.
C19_RegistryStep ==
    /\ workflow_definitions' # workflow_definitions =>
          /\ DOMAIN workflow_definitions \subseteq DOMAIN workflow_definitions'
          /\ \E id \in DOMAIN workflow_definitions' :
                \A other \in DOMAIN workflow_definitions :
                    other # id => workflow_definitions'[other] =
                                     workflow_definitions[other]
          /\ executions' = executions
    /\ (lastCall'.op = "execute_workflow" /\ lastCall'.result = None) =>
          executions'[lastCall'.id].workflow_def = workflow_definitions[lastCall'.wf]
    /\ \A e \in ExecutionIds :
          Created(e) => executions'[e].workflow_def = executions[e].workflow_def

\* C19: register_workflow stores the definition under its id and a second
\* registration of the id replaces the first; execute_workflow runs the
\* definition registered last, and an execution started before keeps
\* running the tasks of the definition it was started with.
C19_Overwrite == []C19_OwnTasks /\ [][C19_RegistryStep]_vars

\* C19 witness: an execution started with the independent tasks A, B of
\* wf2 has completed them after wf2 was registered again with other tasks.
C19_Witness ==
    \E e \in ExecutionIds :
        /\ Created(e)
        /\ executions[e].workflow_def.id \in DOMAIN workflow_definitions
        /\ workflow_definitions[executions[e].workflow_def.id].tasks # Tasks(e)
        /\ executions[e].status = "completed"
        /\ DOMAIN TaskMap(e) = TaskIdSet(Tasks(e))

\* The tasks of `tasks` have the ids task_0, task_1, ... in this order, no
\* two of them the same id, and a dependency on task_0 names the first.
NumberedFromZero(tasks) ==
    /\ \A i \in 1 .. Len(tasks) : tasks[i].id = <<"task_">> \o Decimal(i - 1)
    /\ \A i, j \in 1 .. Len(tasks) : i # j => tasks[i].id # tasks[j].id
    /\ \A i \in 1 .. Len(tasks) :
          <<"task_", "0">> \in tasks[i].dependencies => tasks[1].id = <<"task_", "0">>

\* C20, in every state: the tasks added since the last build and the tasks
\* of every definition built are numbered from task_0 in the order they
\* were added.
C20_Numbered ==
    /\ NumberedFromZero(builder.tasks)
    /\ \A k \in 1 .. Len(built) : NumberedFromZero(built[k].tasks)

\* C20, in every step: add_task appends one task to those added since the
\* last build; build returns a definition that holds exactly these tasks, in
\* order, and none is left for the next build; the definitions built before
\* stay as they are.
C20_BuilderStep ==
    /\ \A k \in 1 .. Len(built) : k <= Len(built') /\ built'[k] = built[k]
    /\ built' = built =>
          /\ Len(builder'.tasks) = Len(builder.tasks) + 1
          /\ SubSeq(builder'.tasks, 1, Len(builder.tasks)) = builder.tasks
    /\ built' # built =>
          /\ Len(built') = Len(built) + 1
          /\ built'[Len(built')].tasks = builder.tasks
          /\ builder'.tasks = <<>>

\* C20: WorkflowBuilder numbers the tasks of each workflow from task_0 and
\* build returns the tasks added since the build before, without changing a
\* definition built earlier.
C20_Builder == []C20_Numbered /\ [][C20_BuilderStep]_vars

\* C20 witness: a second definition was built with two tasks, the second
\* depending on task_0, after a first definition of two tasks, and a task
\* was added since.
C20_Witness ==
    /\ Len(built) = 2
    /\ Len(built[1].tasks) = 2
    /\ Len(built[2].tasks) = 2
    /\ built[2].tasks[2].id = <<"task_", "1">>
    /\ built[2].tasks[2].dependencies = {built[2].tasks[1].id}
    /\ Len(builder.tasks) = 1

\* C21: registry invariant.  In every reachable state (a state is what the
\* engine holds between two steps of the event loop, so after the step that
\* made an execution terminal has finished), every execution in
\* active_executions has status Running, and an execution whose status is
\* Completed, Failed or Cancelled is not in active_executions.
C21_RegistryRunning ==
    \A e \in ExecutionIds :
        /\ e \in active_executions =>
              Created(e) /\ executions[e].status = "running"
        /\ (Created(e) /\ executions[e].status \in Terminal) =>
              e \notin active_executions

\* C21 witness: the control loop has left an execution Failed after a task
\* failed, and the execution is out of the registry.
C21_Witness ==
    \E e \in ExecutionIds :
        /\ Created(e)
        /\ pc[e] = "returned"
        /\ executions[e].status = "failed"
        /\ FailedTasks(e) # {}
        /\ e \notin active_executions


\* C22 as stated: in every step taken while an execution is Cancelled, a
\* task that is Running stays Running or becomes Completed or Failed (its
\* dispatch is not interrupted), no task gets a TaskExecution (a task that
\* had none when cancel_workflow was called is not dispatched), and no round
\* is started.
C22_CancelledStep ==
    \A e \in ExecutionIds :
        (Created(e) /\ executions[e].status = "cancelled") =>
            /\ \A t \in DOMAIN TaskMap(e) :
                  /\ t \in DOMAIN executions'[e].task_executions
                  /\ TaskMap(e)[t].status = "running" =>
                        executions'[e].task_executions[t].status
                            \in {"running", "completed", "failed"}
            /\ DOMAIN executions'[e].task_executions = DOMAIN TaskMap(e)
            /\ history'[e].rounds = history[e].rounds

C22_CancelNonPreemptive == [][C22_CancelledStep]_vars


RunningTasks(e) == {t \in DOMAIN TaskMap(e) : TaskMap(e)[t].status = "running"}

\* C23: round barrier.  The control loop changes no TaskExecution, so the
\* state it leaves shows what it found: when it has just started a round
\* (its gather holds tasks and none of them has started yet) no TaskExecution
\* of the execution is Running, and a workflow that is Completed or Failed
\* has no Running TaskExecution; the tasks that are Running at the same time
\* were all dispatched in the same round.
C23_RoundBarrier ==
    \A e \in ExecutionIds :
        Created(e) =>
            /\ pc[e] = "gathered" => RunningTasks(e) = {}
            /\ executions[e].status \in {"completed", "failed"} =>
                  RunningTasks(e) = {}
            /\ \A t, u \in RunningTasks(e) :
                  history[e].dispatched[t] = history[e].dispatched[u]

\* C23 witness: round 2 has just been started, after the one task of round
\* 1 completed, and its two tasks are still to be started.
C23_Witness ==
    \E e \in ExecutionIds :
        /\ Created(e)
        /\ pc[e] = "gathered"
        /\ history[e].rounds = 2
        /\ Len(pending[e]) = 2
        /\ DOMAIN TaskMap(e) = {"A"}
        /\ TaskMap(e)["A"].status = "completed"


\* The positions, in the definition of e, of the tasks that are Failed.
FailedPositions(e) ==
    {i \in 1 .. Len(Tasks(e)) : Tasks(e)[i].id \in FailedTasks(e)}

\* C24: every Failed task was dispatched in the last round started (no
\* round is started once a task of a round failed), and when the control
\* loop has ended the workflow is Failed and its error is the error of the
\* Failed task that comes first in the definition, which is the order the
\* round was dispatched in, whichever dispatch finished first.
C24_FirstFailure ==
    \A e \in ExecutionIds :
        (Created(e) /\ FailedTasks(e) # {}) =>
            /\ \A t \in FailedTasks(e) : history[e].dispatched[t] = history[e].rounds
            /\ LoopEnded(e) =>
                  LET first == CHOOSE i \in FailedPositions(e) :
                                   \A j \in FailedPositions(e) : i <= j
                  IN  /\ executions[e].status = "failed"
                      /\ executions[e].error = TaskMap(e)[Tasks(e)[first].id].error

\* C24 witness: two tasks of one round failed with different errors and the
\* workflow holds the error of the first of them, the empty string.
C24_Witness ==
    \E e \in ExecutionIds :
        /\ Created(e)
        /\ LoopEnded(e)
        /\ FailedTasks(e) = {"A", "B"}
        /\ history[e].dispatched["A"] = history[e].dispatched["B"]
        /\ TaskMap(e)["A"].error = Str("")
        /\ TaskMap(e)["B"].error = Str("not connected")
        /\ Tasks(e)[1].id = "A"
        /\ executions[e].error = Str("")


\* Every TaskDefinition of e has a TaskExecution with status Completed.
AllCompleted(e) ==
    \A i \in 1 .. Len(Tasks(e)) :
        /\ Tasks(e)[i].id \in DOMAIN TaskMap(e)
        /\ TaskMap(e)[Tasks(e)[i].id].status = "completed"

\* C25: completion condition.  A Completed execution has every task of its
\* definition Completed; and when every task is Completed, either the
\* control loop is still suspended in the gather of the last round (it has
\* had no iteration since), or the execution is Completed, unless a caller
\* cancelled it: the loop never sleeps or starts a round in that state.
C25_CompletionCondition ==
    \A e \in ExecutionIds :
        Created(e) =>
            /\ executions[e].status = "completed" => AllCompleted(e)
            /\ (AllCompleted(e) /\ pc[e] # "await") =>
                  /\ LoopEnded(e)
                  /\ executions[e].status \in {"completed", "cancelled"}
            /\ (AllCompleted(e) /\ LoopEnded(e) /\ pc[e] = "returned") =>
                  executions[e].status = "completed"

\* C25 witness: the control loop has ended the fan-out workflow Completed
\* after its second round, with A, B and C Completed.
C25_Witness ==
    \E e \in ExecutionIds :
        /\ Created(e)
        /\ Len(Tasks(e)) = 3
        /\ AllCompleted(e)
        /\ pc[e] = "returned"
        /\ executions[e].status = "completed"
        /\ history[e].dispatched["C"] = 2


\* The tasks of e that the step settles: Running, or not yet started,
\* before it and Completed or Failed after it.
SettledInStep(e) ==
    {t \in DOMAIN executions'[e].task_executions :
        /\ executions'[e].task_executions[t].status \in {"completed", "failed"}
        /\ t \in DOMAIN TaskMap(e) => TaskMap(e)[t].status = "running"}

\* C26: in every step that settles a task of an execution, the dict that is
\* the execution's variable space is, when the task is Completed with a map
\* result, the dict before the step with the entry <taskId>.<outputName> set
\* to result[outputName] for every declared output name that is a key of the
\* result, and nothing else added or changed; it is the dict before the step
\* when the task is Failed or its result is not a map.  No other dict
\* changes, and a step that settles no task changes no dict.
C26_OutputStep ==
    /\ \A e \in ExecutionIds :
          Created(e) =>
              \A t \in SettledInStep(e) :
                  LET task_exec == executions'[e].task_executions[t]
                      ref == executions[e].variables
                      old == dicts[ref]
                      new == dicts'[ref]
                      names == IF /\ task_exec.status = "completed"
                                  /\ task_exec.result.kind = "dict"
                               THEN task_exec.task_def.outputs
                                        \cap DOMAIN task_exec.result.m
                               ELSE {}
                      keys == {<<t, ".", output_name>> : output_name \in names}
                  IN  /\ DOMAIN new = DOMAIN old \cup keys
                      /\ \A output_name \in names :
                            new[<<t, ".", output_name>>] =
                                task_exec.result.m[output_name]
                      /\ \A k \in DOMAIN old \ keys : new[k] = old[k]
                      /\ \A r \in DOMAIN dicts : r # ref => dicts'[r] = dicts[r]
    /\ (\A e \in ExecutionIds : Created(e) => SettledInStep(e) = {}) =>
          dicts' = dicts

C26_OutputsWritten == [][C26_OutputStep]_vars

\* C26 witness: P, which declares the outputs o and q, is Completed with a
\* map that holds o and u; the callers' dict, which is the variable space,
\* holds x as before and P.o, and neither P.q nor P.u.
C26_Witness ==
    \E e \in ExecutionIds :
        /\ Created(e)
        /\ executions[e].variables = CallerDict
        /\ "P" \in DOMAIN TaskMap(e)
        /\ TaskMap(e)["P"].status = "completed"
        /\ TaskMap(e)["P"].result.kind = "dict"
        /\ DOMAIN TaskMap(e)["P"].result.m = {"o", "u"}
        /\ TaskMap(e)["P"].task_def.outputs = {"o", "q"}
        /\ DOMAIN dicts[CallerDict] = {<<"x">>, <<"P", ".", "o">>}
        /\ dicts[CallerDict][<<"P", ".", "o">>] = Scalar(1)
        /\ dicts[CallerDict][<<"x">>] = Scalar(5)


\* The declared outputs of task t of e that its result holds are keys of
\* the variable space of e; where the variable space is the execution's own
\* dict they have the values of the result.
OutputsVisible(e, t) ==
    LET task_exec == TaskMap(e)[t]
        variables == dicts[executions[e].variables]
    IN  task_exec.result.kind = "dict" =>
            \A output_name \in task_exec.task_def.outputs
                                   \cap DOMAIN task_exec.result.m :
                /\ <<t, ".", output_name>> \in DOMAIN variables
                /\ executions[e].variables # CallerDict =>
                      variables[<<t, ".", output_name>>] =
                          task_exec.result.m[output_name]

\* C27: output visibility ordering.  In every reachable state, a task that
\* is Completed has its outputs in the variable space; and every task that
\* is about to be started (its inputs are resolved in the next step of its
\* execution) has each of its dependencies Completed, with that dependency's
\* outputs in the variable space.
C27_OutputsVisible ==
    \A e \in ExecutionIds :
        Created(e) =>
            /\ \A t \in DOMAIN TaskMap(e) :
                  TaskMap(e)[t].status = "completed" => OutputsVisible(e, t)
            /\ \A i \in 1 .. Len(pending[e]) :
                  \A d \in pending[e][i].dependencies :
                      /\ d \in DOMAIN TaskMap(e)
                      /\ TaskMap(e)[d].status = "completed"
                      /\ OutputsVisible(e, d)

\* C27 witness: Q, which depends on P, is about to be started; P is
\* Completed with a map that holds its output o, and P.o is in the variable
\* space with the value of the result.
C27_Witness ==
    \E e \in ExecutionIds :
        /\ Created(e)
        /\ pc[e] = "gathered"
        /\ pending[e] # <<>>
        /\ Head(pending[e]).id = "Q"
        /\ "P" \in Head(pending[e]).dependencies
        /\ TaskMap(e)["P"].status = "completed"
        /\ TaskMap(e)["P"].result.kind = "dict"
        /\ "o" \in DOMAIN TaskMap(e)["P"].result.m
        /\ <<"P", ".", "o">> \in DOMAIN dicts[executions[e].variables]
        /\ dicts[executions[e].variables][<<"P", ".", "o">>] =
              TaskMap(e)["P"].result.m["o"]


\* C28, in every state: a TaskExecution of the task map is Running, with no
\* result and no error, Completed, with no error, or Failed, with an error
\* string and no result.
C28_TaskStatuses ==
    \A e \in ExecutionIds :
        Created(e) =>
            \A t \in DOMAIN TaskMap(e) :
                LET task_exec == TaskMap(e)[t] IN
                /\ task_exec.status \in {"running", "completed", "failed"}
                /\ task_exec.status = "running" =>
                      task_exec.result = None /\ task_exec.error = None
                /\ task_exec.status = "completed" => task_exec.error = None
                /\ task_exec.status = "failed" =>
                      task_exec.result = None /\ task_exec.error.kind = "str"

\* C28, in every step: a TaskExecution stays in the task map; one that is
\* Running stays Running or becomes Completed or Failed; one that is
\* Completed or Failed is left as it is, status, result and error.
C28_TaskStep ==
    \A e \in ExecutionIds :
        Created(e) =>
            \A t \in DOMAIN TaskMap(e) :
                /\ t \in DOMAIN executions'[e].task_executions
                /\ TaskMap(e)[t].status = "running" =>
                      executions'[e].task_executions[t].status
                          \in {"running", "completed", "failed"}
                /\ TaskMap(e)[t].status \in {"completed", "failed"} =>
                      executions'[e].task_executions[t] = TaskMap(e)[t]

\* C28: task state machine.  The TaskExecutions of a definition with unique
\* task ids are Running, Completed or Failed, never Pending or Skipped; they
\* go from Running to Completed or to Failed and never change afterwards.
C28_TaskStateMachine == []C28_TaskStatuses /\ [][C28_TaskStep]_vars

\* C28 witness: of the fan-out workflow A is Completed with its result, B is
\* Failed with its error and C is Running.
C28_Witness ==
    \E e \in ExecutionIds :
        /\ Created(e)
        /\ DOMAIN TaskMap(e) = {"A", "B", "C"}
        /\ TaskMap(e)["A"].status = "completed"
        /\ TaskMap(e)["A"].result # None
        /\ TaskMap(e)["B"].status = "failed"
        /\ TaskMap(e)["B"].error = Str("not connected")
        /\ TaskMap(e)["C"].status = "running"


\* No two tasks of `tasks` have the same id.
UniqueIds(tasks) ==
    \A i, j \in 1 .. Len(tasks) : tasks[i].id = tasks[j].id => i = j

\* In this step of execution e, the task that is started has no
\* TaskExecution yet (an id that was dispatched before has one, as none is
\* ever removed), every TaskExecution stays in the task map with its
\* TaskDefinition, and one that is Completed or Failed is not replaced by a
\* Running one.
DispatchedOnce(e) ==
    /\ Dispatches(e) => Head(pending[e]).id \notin DOMAIN TaskMap(e)
    /\ \A t \in DOMAIN TaskMap(e) :
          /\ t \in DOMAIN executions'[e].task_executions
          /\ executions'[e].task_executions[t].task_def = TaskMap(e)[t].task_def
          /\ TaskMap(e)[t].status # "running" =>
                executions'[e].task_executions[t].status = TaskMap(e)[t].status

\* C29 as stated: in every step of every execution, whatever its
\* definition, a task id is dispatched at most once and the task map only
\* grows.
C29_DispatchStep ==
    \A e \in ExecutionIds : Created(e) => DispatchedOnce(e)

C29_AtMostOnce == [][C29_DispatchStep]_vars

\* C29 amended: the same, for the executions of definitions whose task ids
\* are unique.
C29_UniqueStep ==
    \A e \in ExecutionIds :
        (Created(e) /\ UniqueIds(Tasks(e))) => DispatchedOnce(e)

C29_AtMostOnceUniqueIds == [][C29_UniqueStep]_vars

\* C29 witness: the fan-out workflow has ended Failed after its second
\* round: A, B and C were each dispatched once, B failed and was not
\* dispatched again.
C29_Witness ==
    \E e \in ExecutionIds :
        /\ Created(e)
        /\ UniqueIds(Tasks(e))
        /\ LoopEnded(e)
        /\ history[e].rounds = 2
        /\ DOMAIN TaskMap(e) = {"A", "B", "C"}
        /\ TaskMap(e)["B"].status = "failed"
        /\ history[e].dispatched["B"] = 2


\* The dependencies declared by the tasks of `tasks` whose id is in ids.
Successors(tasks, ids) ==
    UNION {tasks[i].dependencies : i \in {i \in 1 .. Len(tasks) : tasks[i].id \in ids}}

\* ids and everything reached from them in at most n steps of dependency.
RECURSIVE Closure(_, _, _)
Closure(tasks, ids, n) ==
    IF n = 0 THEN ids ELSE Closure(tasks, ids \cup Successors(tasks, ids), n - 1)

\* The ids of the tasks of `tasks` that depend, directly or not, on
\* themselves: the tasks on a cycle of the dependency graph.
OnCycle(tasks) ==
    {id \in TaskIdSet(tasks) :
        id \in Closure(tasks, Successors(tasks, {id}), Len(tasks))}

\* The control loop of e is in asyncio.sleep with the execution Running.
Polling(e) == pc[e] = "sleep" /\ executions[e].status = "running"

\* C30, in every state: an execution of a definition with a cycle is not
\* Completed, no task on the cycle has a TaskExecution, its call has raised
\* no ValueError, and while it polls no task is ready.
C30_CycleBlocked ==
    \A e \in ExecutionIds :
        (Created(e) /\ OnCycle(Tasks(e)) # {}) =>
            /\ executions[e].status # "completed"
            /\ OnCycle(Tasks(e)) \cap DOMAIN TaskMap(e) = {}
            /\ pc[e] = "sleep" => _get_ready_tasks(executions[e]) = <<>>
            /\ (lastCall.op = "execute_workflow" /\ lastCall.id = e) =>
                  lastCall.result = None

\* C30, in every step: a control loop that polls goes on polling, the
\* execution Running, unless the execution is cancelled.
C30_PollStep ==
    \A e \in ExecutionIds :
        (Created(e) /\ OnCycle(Tasks(e)) # {} /\ Polling(e)) =>
            \/ Polling(e)'
            \/ pc'[e] = "sleep" /\ executions'[e].status = "cancelled"

\* C30: a workflow with a cycle in its dependency graph never reaches
\* Completed and the tasks on the cycle are never dispatched; no error is
\* raised for the definition; and unless another task fails or the execution
\* is cancelled, the control loop ends up polling, where it finds zero ready
\* tasks in every iteration and stays, the execution Running, forever.
C30_CycleNeverCompletes ==
    /\ []C30_CycleBlocked
    /\ [][C30_PollStep]_vars
    /\ \A e \in ExecutionIds :
          (Created(e) /\ OnCycle(Tasks(e)) # {}) ~>
              /\ Created(e)
              /\ \/ Polling(e)
                 \/ FailedTasks(e) # {}
                 \/ executions[e].status = "cancelled"

\* C30 witness: A of the definition that holds the cycle B, C is Completed
\* and the control loop polls, Running, with neither B nor C dispatched.
C30_Witness ==
    \E e \in ExecutionIds :
        /\ Created(e)
        /\ OnCycle(Tasks(e)) = {"B", "C"}
        /\ Polling(e)
        /\ DOMAIN TaskMap(e) = {"A"}
        /\ TaskMap(e)["A"].status = "completed"


\* The step is taken by the control loop of e or by one of the _execute_task
\* coroutines its gather runs.
OwnLoopStep(e) ==
    \/ \E outcome \in AllOutcomes : TaskStart(e, outcome)
    \/ \E i \in GatherPositions, answer \in AllAnswers : TaskReturn(e, i, answer)
    \/ RoundEnd(e)
    \/ PollWake(e)

\* The fields of the record of e named by the claim, with the content of
\* its variable space.
OwnedFields(e) ==
    <<executions[e].status, executions[e].completed_at, executions[e].error,
      executions[e].task_executions, executions[e].variables,
      dicts[executions[e].variables]>>

\* C31 as stated: a step that changes the status, the end time, the error,
\* the task map or the variable space of an execution is a step of that
\* execution's own control loop.
C31_OwnershipStep ==
    \A e \in ExecutionIds :
        (Created(e) /\ OwnedFields(e)' # OwnedFields(e)) => OwnLoopStep(e)

C31_ExclusiveOwnership == [][C31_OwnershipStep]_vars


\* A string that is, as a whole, one reference expression: "${", a path
\* that holds neither "${" nor "}", and "}".
IsWholeReference(value) ==
    /\ IsReference(value)
    /\ \A i \in 2 .. (Len(value.tokens) - 1) : value.tokens[i] \notin {"${", "}"}

\* C32 as stated: in every dispatch, an input value that is not, as a whole
\* string, one reference expression is dispatched under its key with the
\* value the definition gives it.
C32_LiteralStep ==
    \A e \in ExecutionIds :
        Dispatches(e) =>
            \A key \in DOMAIN Head(pending[e]).inputs :
                LET value == Head(pending[e]).inputs[key] IN
                ~IsWholeReference(value) =>
                    /\ key \in DOMAIN DispatchedInputs(e)
                    /\ DispatchedInputs(e)[key] = value

C32_WholeStringOnly == [][C32_LiteralStep]_vars


\* C33 as stated: the call of execute_workflow never ends by raising: the
\* cleanup of the control loop never deletes an execution id that is not a
\* key of the registry, also after a cancel_workflow has removed it.
C33_RemovedOnce ==
    \A e \in ExecutionIds :
        (Created(e) /\ LoopEnded(e)) =>
            /\ pc[e] = "returned"
            /\ e \notin active_executions


\* C34 as stated: the tasks that the first pass of the control loop of a new
\* execution hands to asyncio.gather are the tasks that start_tasks of its
\* definition lists.
C34_FirstRoundStep ==
    \A e \in ExecutionIds :
        (~Created(e) /\ Created(e)') =>
            LET start_tasks == executions'[e].workflow_def.start_tasks IN
            TaskIdSet(gathered'[e]) = {start_tasks[i] : i \in 1 .. Len(start_tasks)}

C34_StartTasksDispatchedFirst == [][C34_FirstRoundStep]_vars


\* Where an execution is once its control loop has taken the sleep branch:
\* Running or Cancelled, no task ready, and the control loop asleep or ended.
Trapped(e) ==
    /\ Created(e)
    /\ executions[e].status \in {"running", "cancelled"}
    /\ _get_ready_tasks(executions[e]) = <<>>
    /\ pc[e] = "sleep" \/ LoopEnded(e)

\* A step that takes a polling execution out of Running is a successful
\* cancel_workflow of that execution, and any other step leaves its task
\* map as it is.
C35_LeaveStep ==
    \A e \in ExecutionIds :
        (Created(e) /\ Polling(e)) =>
            /\ executions'[e].task_executions = executions[e].task_executions
            /\ executions'[e].status # "running" =>
                  /\ executions'[e].status = "cancelled"
                  /\ lastCall' = Call("cancel_workflow", e, "", None)

\* C35: from a state where the control loop of an execution has found no
\* ready task with the execution not complete (it sleeps, the execution
\* Running), the execution never has a ready task again, never has a round
\* started, and is never Completed or Failed; it leaves Running only by a
\* cancel_workflow.
C35_PollingTrap ==
    /\ \A e \in ExecutionIds : [](Created(e) /\ Polling(e) => []Trapped(e))
    /\ [][C35_LeaveStep]_vars

\* C35 witness: the execution of the definition where B and C wait for each
\* other has polled from its first pass, was cancelled, and its control
\* loop has ended with no task ever dispatched.
C35_Witness ==
    \E e \in ExecutionIds :
        /\ Created(e)
        /\ Tasks(e) = Cyclic.tasks
        /\ history[e].rounds = 0
        /\ executions[e].status = "cancelled"
        /\ LoopEnded(e)
        /\ TaskMap(e) = EmptyMap


\* C36 as stated: in every dispatch, the keys of the resolved inputs are
\* the keys of the inputs the task declares.
C36_KeyStep ==
    \A e \in ExecutionIds :
        Dispatches(e) =>
            DOMAIN DispatchedInputs(e) = DOMAIN Head(pending[e]).inputs

C36_SameKeys == [][C36_KeyStep]_vars


\* C37 as stated: two executions never have the same dict as variable
\* space, and the dict the callers pass as input_variables holds what the
\* callers put into it.
C37_Isolation ==
    /\ \A e, o \in ExecutionIds :
          (Created(e) /\ Created(o) /\ e # o) =>
              executions[e].variables # executions[o].variables
    /\ dicts[CallerDict] = CallerVariables


\* The task whose TaskExecution _resolve_inputs looks up for an input value
\* (lines 139-142): the part of the path before its first ".".
ReferredTask(value) ==
    IF IsReference(value) /\ Len(value.tokens) >= 4 /\ value.tokens[3] = "."
                          /\ value.tokens[2] # "."
    THEN {value.tokens[2]}
    ELSE {}

\* The tasks of the gather of e started so far, with the one being started.
StartedNow(e) == SubSeq(gathered[e], 1, Len(gathered[e]) - Len(pending[e]) + 1)

RECURSIVE StartAll(_, _)
StartAll(workflow_execution, tasks) ==
    IF tasks = <<>>
    THEN workflow_execution
    ELSE StartAll(StartTask(workflow_execution, Head(tasks)), Tail(tasks))

\* What the task being started is dispatched with in the run that starts
\* from the same state at round start and in which no dispatch of the round
\* has returned yet: the task map of the round start with the tasks started
\* so far Running.
RoundStartInputs(e) ==
    _resolve_inputs(Head(pending[e]),
                    StartAll([executions[e] EXCEPT
                                 !.task_executions = history[e].at_start],
                             StartedNow(e)))

\* The input under `key` is dispatched as in that run.
AsAtRoundStart(e, key) ==
    /\ key \in DOMAIN DispatchedInputs(e) <=> key \in DOMAIN RoundStartInputs(e)
    /\ key \in DOMAIN DispatchedInputs(e) =>
          DispatchedInputs(e)[key] = RoundStartInputs(e)[key]

\* C38 as stated: every task is dispatched with the inputs it has in every
\* other run from the same state at round start, wherever the dispatches of
\* its siblings are.
C38_AllInputsStep ==
    \A e \in ExecutionIds :
        Dispatches(e) =>
            \A key \in DOMAIN Head(pending[e]).inputs : AsAtRoundStart(e, key)

C38_DeterminedAtRoundStart == [][C38_AllInputsStep]_vars

\* C38 amended, the task map: an input that does not refer to the output of
\* a task of the round is dispatched as in every other run from the same
\* state at round start.
C38_OtherInputsStep ==
    \A e \in ExecutionIds :
        Dispatches(e) =>
            \A key \in DOMAIN Head(pending[e]).inputs :
                ReferredTask(Head(pending[e]).inputs[key])
                        \cap TaskIdSet(gathered[e]) = {}
                    => AsAtRoundStart(e, key)

\* C38 amended, the variables: no step changes an entry of a variable space
\* that a variable reference can name (a name without ".").
C38_VariablesStep ==
    \A r \in DOMAIN dicts :
        \A name \in (DOMAIN dicts[r]) \cup (DOMAIN dicts'[r]) :
            (\A i \in 1 .. Len(name) : name[i] # ".") =>
                /\ name \in DOMAIN dicts[r]
                /\ name \in DOMAIN dicts'[r]
                /\ dicts'[r][name] = dicts[r][name]

C38_DeterminedButSiblings ==
    /\ [][C38_OtherInputsStep]_vars
    /\ [][C38_VariablesStep]_vars

\* C38 witness: U was dispatched after its sibling P had returned {o: 1},
\* with ${o} as it was at round start and with the result of P for the
\* input that refers to P, which a run where P is still in flight leaves
\* as it is.
C38_Witness ==
    \E e \in ExecutionIds :
        /\ Created(e)
        /\ history[e].rounds = 1
        /\ "U" \in DOMAIN history[e].inputs
        /\ history[e].at_start = EmptyMap
        /\ history[e].inputs["U"]["w"] = Reference(<<"o">>)
        /\ history[e].inputs["U"]["k"].kind = "dict"

====
